---- MODULE Spec2Model ----
(***************************************************************************)
(* Model of the iOS event loop of tao:                                     *)
(*   src/src/platform_impl/ios/event_loop.rs                               *)
(* EventLoop::new / run, EventLoopProxy (new, clone, drop, send_event),    *)
(* the three CFRunLoop observers of setup_control_flow_observers and the   *)
(* EventLoopHandler that passes events to the application closure.         *)
(*                                                                         *)
(* The host run loop (CFRunLoop) is the environment: it delivers the       *)
(* activities Entry, BeforeWaiting, AfterWaiting and Exit to the observers *)
(* registered for them, lowest order first.  The dispatcher behind         *)
(* app_state::handle_* is not part of event_loop.rs; it is modelled from   *)
(* spec.md (sections 2, 4.2, 5 and 6).                                     *)
(*                                                                         *)
(* Model of the macOS view of tao:                                         *)
(*   src/src/platform_impl/macos/view.rs                                   *)
(* the callbacks of TaoView for modifier keys (flags_changed), keys        *)
(* (key_down, key_up), text composition (set_marked_text, insert_text,     *)
(* unmark_text, has_marked_text), cancel_operation, the pointer            *)
(* (mouse_motion, mouse_click) and the scroll wheel (scroll_wheel).  The   *)
(* keyboard, the pointer and the input context are the environment; a      *)
(* modifier key may change while another window has the keyboard.          *)
(***************************************************************************)
EXTENDS Integers, Sequences, FiniteSets, TLC

\* ------------------------------------------------------------------ bounds
\* calls of send_event over all proxies
MaxSends == 2
\* EventLoop values ever constructed
MaxConstructed == 2

\* ------------------------------------------------------------- value sets
Threads == {"main", "worker"}
Proxies == {1, 2}
ExitCodes == {0, 1}
Deadlines == {1}

\* CFIndex::MIN and CFIndex::MAX, at the width of a 32-bit CFIndex
CFIndexMin == -2147483647 - 1
CFIndexMax == 2147483647
\* order of the Core Animation redraw observer, 0x1e8480
CoreAnimationOrder == 2000000
\* orders of two other observers of the host, one on each side of the redraw
HostEarlyOrder == -1
HostLateOrder == 2000001

\* ------------------------------------------------------------ ControlFlow
Poll == [tag |-> "Poll", arg |-> 0]
Wait == [tag |-> "Wait", arg |-> 0]
WaitUntil(t) == [tag |-> "WaitUntil", arg |-> t]
ExitWithCode(c) == [tag |-> "ExitWithCode", arg |-> c]
ControlFlow ==
  {Poll, Wait} \cup {WaitUntil(t) : t \in Deadlines}
               \cup {ExitWithCode(c) : c \in ExitCodes}
IsExit(cf) == cf.tag = "ExitWithCode"

\* what one invocation of the application closure does to *control_flow:
\* it leaves it alone or assigns any ControlFlow value
Keep == [tag |-> "Keep", arg |-> 0]
HandlerWrites == ControlFlow \cup {Keep}

VARIABLES
  SINGLETON_INIT,  \* static mut SINGLETON_INIT
  lastNew,         \* the last call of EventLoop::new: thread, flag read, outcome
  constructed,     \* calls of EventLoop::new that returned an EventLoop
  observers,       \* observers registered on the main run loop
  loopState,       \* the EventLoop value: none, built, running, dropped
  receiverAlive,   \* a Receiver of the user-event channel exists
  queue,           \* contents of the user-event channel
  delivered,       \* user events handed to the closure, in order
  nSends,          \* calls of send_event so far
  sentOk,          \* events the channel accepted, in order
  proxy,           \* proxy -> none, live, dropped
  pc,              \* proxy -> position inside send_event
  arg,             \* proxy -> the value a failed send_event was called with
  result,          \* proxy -> the result of the last send_event call
  srcValid,        \* proxy -> its run-loop source is valid
  signals,         \* proxy -> CFRunLoopSourceSignal calls made by send_event
  wakes,           \* proxy -> CFRunLoopWakeUp calls made by send_event
  oks,             \* proxy -> sends accepted by the channel
  wakePending,     \* a CFRunLoopWakeUp has not been consumed yet
  runState,        \* init, launched, awake, notify, sleeping, crashed, terminated
  activity,        \* the activity being notified
  pending,         \* observers still to be called for this activity
  cb,              \* app_state callback in progress, or none
  cbpc,            \* its position: marker, drain
  trace,           \* callbacks since the loop last woke
  control_flow,    \* the ControlFlow value handed to the closure
  exitObserved,    \* the closure has set ExitWithCode at some point
  drainedPastExit, \* an event enqueued before that was delivered after it
  deadlineReached, \* monotonic time has reached the deadline of this sleep
  state,           \* the ViewState behind taoState
  markedText,      \* the markedText ivar of the view
  held,            \* modifier keys physically held on the keyboard
  keyHeld,         \* the other key physically held, or none
  enqueued,        \* events the latest view callback passed to queue_event
  sent,            \* messages the latest view callback sent
  last,            \* the latest view callback and its arguments
  balance,         \* modifier key -> Pressed minus Released events queued
  flagChanges,     \* flagsChanged: messages received so far
  buttons,         \* pointer buttons physically held
  notified         \* <<mask of the latest ModifiersChanged queued>>, or <<>>

vars ==
  <<SINGLETON_INIT, lastNew, constructed, observers, loopState, receiverAlive, queue,
    delivered, nSends, sentOk, proxy, pc, arg, result, srcValid,
    signals, wakes, oks, wakePending, runState, activity, pending, cb, cbpc,
    trace, control_flow, exitObserved, drainedPastExit,
    deadlineReached, state,
    markedText, held, keyHeld, enqueued, sent, last, balance, flagChanges, buttons,
    notified>>

newVars == <<SINGLETON_INIT, lastNew, constructed, observers>>
chanVars == <<receiverAlive, queue, delivered, nSends, sentOk>>
proxyVars == <<proxy, pc, arg, result, srcValid, signals, wakes, oks>>
hostVars == <<runState, activity, pending, cb, cbpc, trace>>
flowVars == <<control_flow, exitObserved, drainedPastExit>>
viewVars ==
  <<state, markedText, held, keyHeld, enqueued, sent, last, balance, flagChanges,
    buttons, notified>>
loopVars ==
  <<newVars, loopState, chanVars, proxyVars, wakePending, hostVars, flowVars,
    deadlineReached>>

ProcessAlive == runState \notin {"crashed", "terminated"}

\* ------------------------------------------------------- run-loop observers
BeginObserver ==
  [name |-> "begin", acts |-> {"Entry", "AfterWaiting"}, order |-> CFIndexMin]
\* a MainEnd observer ordered after the host's redraw observer
MainEndObserverAfterRedraw ==
  [name |-> "main_end", acts |-> {"Exit", "BeforeWaiting"},
   order |-> CoreAnimationOrder + 1]

MainEndObserver ==
  [name |-> "main_end", acts |-> {"Exit", "BeforeWaiting"}, order |-> 0]
EndObserver ==
  [name |-> "end", acts |-> {"Exit", "BeforeWaiting"}, order |-> CFIndexMax]
CoreAnimationObserver ==
  [name |-> "host_redraw", acts |-> {"Exit", "BeforeWaiting"},
   order |-> CoreAnimationOrder]
HostEarlyObserver ==
  [name |-> "host_early", acts |-> {"BeforeWaiting", "AfterWaiting"},
   order |-> HostEarlyOrder]
HostLateObserver ==
  [name |-> "host_late", acts |-> {"BeforeWaiting", "AfterWaiting"},
   order |-> HostLateOrder]
HostObservers == {CoreAnimationObserver, HostEarlyObserver, HostLateObserver}

\* the observers setup_control_flow_observers adds to the main run loop
setup_control_flow_observers == {BeginObserver, MainEndObserver, EndObserver}

RECURSIVE ByOrder(_)
ByOrder(S) ==
  IF S = {} THEN <<>>
  ELSE LET first == CHOOSE o \in S : \A x \in S : o.order <= x.order
       IN <<first>> \o ByOrder(S \ {first})

\* the run loop calls the observers of an activity in ascending order
ObserversFor(act) == ByOrder({o \in observers : act \in o.acts})

\* ---------------------------------------------------------- EventLoop::new
\* a new() that does not consult SINGLETON_INIT
NewOutcomeNoGuard(t, flag) ==
  IF t # "main" THEN "fatal" ELSE "ok"

\* assert_main_thread!, then assert!(!SINGLETON_INIT)
NewOutcome(t, flag) ==
  IF t # "main" THEN "fatal"
  ELSE IF flag THEN "fatal"
  ELSE "ok"

\* Failing calls change nothing but lastNew; they are explored in the runs
\* with at most one send_event (see SendEvent).
New(t) ==
  /\ ProcessAlive
  /\ constructed < MaxConstructed
  /\ NewOutcome(t, SINGLETON_INIT) = "ok" \/ nSends <= 1
  /\ LET out == NewOutcome(t, SINGLETON_INIT) IN
       /\ lastNew' = [thread |-> t, flag |-> SINGLETON_INIT, outcome |-> out]
       /\ constructed' = IF out = "ok" THEN constructed + 1 ELSE constructed
       /\ IF out = "ok"
          THEN /\ SINGLETON_INIT' = TRUE
               /\ observers' = observers \cup setup_control_flow_observers
               /\ loopState' = "built"
               /\ receiverAlive' = TRUE
          ELSE UNCHANGED <<SINGLETON_INIT, observers, loopState, receiverAlive>>
  /\ UNCHANGED <<queue, delivered, nSends, sentOk, proxyVars, wakePending,
                 hostVars, flowVars>>
  /\ UNCHANGED <<deadlineReached, viewVars>>

\* the EventLoop is dropped without having been run: its Receiver goes away
DropEventLoop ==
  /\ ProcessAlive
  /\ loopState = "built"
  /\ loopState' = "dropped"
  /\ receiverAlive' = FALSE
  /\ queue' = <<>>
  /\ UNCHANGED <<newVars, delivered, nSends, sentOk, proxyVars, wakePending,
                 hostVars, flowVars>>
  /\ UNCHANGED <<deadlineReached, viewVars>>

\* EventLoop::run: installs the handler and enters UIApplicationMain
Run ==
  /\ ProcessAlive
  /\ loopState = "built"
  /\ runState = "init"
  /\ loopState' = "running"
  /\ runState' = "launched"
  /\ UNCHANGED <<newVars, chanVars, proxyVars, wakePending, activity, pending,
                 cb, cbpc, trace, flowVars>>
  /\ UNCHANGED <<deadlineReached, viewVars>>

\* ----------------------------------------------------------- EventLoopProxy
\* a user event: the proxy it was sent through, its payload (the n-th value
\* handed to send_event) and whether the closure had set ExitWithCode before
NoEvent == [src |-> 0, n |-> 0, late |-> FALSE]
NoResult == [tag |-> "None", val |-> NoEvent]
Ok == [tag |-> "Ok", val |-> NoEvent]
EventLoopClosed(x) == [tag |-> "Closed", val |-> x]

\* proxies are numbered in the order they are made
FreeProxy == {p \in Proxies : proxy[p] = "none" /\ \A q \in Proxies : q < p => proxy[q] # "none"}

\* EventLoopProxy::new: a fresh source is added to the main run loop, which is woken
ProxyNew(p) ==
  /\ proxy' = [proxy EXCEPT ![p] = "live"]
  /\ srcValid' = [srcValid EXCEPT ![p] = TRUE]
  /\ wakePending' = TRUE

\* EventLoop::create_proxy needs the EventLoop, which run consumes
CreateProxy ==
  /\ ProcessAlive
  /\ loopState = "built"
  /\ \E p \in FreeProxy : ProxyNew(p)
  /\ UNCHANGED <<newVars, loopState, chanVars, pc, arg, result, signals, wakes,
                 oks, hostVars, flowVars>>
  /\ UNCHANGED <<deadlineReached, viewVars>>

CloneProxy ==
  /\ ProcessAlive
  /\ \E src \in Proxies : proxy[src] = "live"
  /\ \E p \in FreeProxy : ProxyNew(p)
  /\ UNCHANGED <<newVars, loopState, chanVars, pc, arg, result, signals, wakes,
                 oks, hostVars, flowVars>>
  /\ UNCHANGED <<deadlineReached, viewVars>>

\* a drop that invalidates the sources of all proxies
DropProxyAll(p) ==
  /\ ProcessAlive
  /\ proxy[p] = "live"
  /\ pc[p] = "idle"
  /\ proxy' = [proxy EXCEPT ![p] = "dropped"]
  /\ srcValid' = [q \in Proxies |-> FALSE]
  /\ UNCHANGED <<newVars, loopState, chanVars, pc, arg, result, signals, wakes,
                 oks, wakePending, hostVars, flowVars>>
  /\ UNCHANGED <<deadlineReached, viewVars>>

\* Drop for EventLoopProxy: only this proxy's source is invalidated
DropProxy(p) ==
  /\ ProcessAlive
  /\ proxy[p] = "live"
  /\ pc[p] = "idle"
  /\ proxy' = [proxy EXCEPT ![p] = "dropped"]
  /\ srcValid' = [srcValid EXCEPT ![p] = FALSE]
  /\ UNCHANGED <<newVars, loopState, chanVars, pc, arg, result, signals, wakes,
                 oks, wakePending, hostVars, flowVars>>
  /\ UNCHANGED <<deadlineReached, viewVars>>

\* a send that reports success before the value is in the channel
ChannelSendLate(q, alive, x) ==
  IF alive THEN [ok |-> TRUE, queue |-> q, err |-> x]
  ELSE [ok |-> FALSE, queue |-> q, err |-> x]

\* Sender::send on the unbounded channel: fails, giving the value back, only
\* when no Receiver is left
ChannelSend(q, alive, x) ==
  IF alive THEN [ok |-> TRUE, queue |-> Append(q, x), err |-> x]
  ELSE [ok |-> FALSE, queue |-> q, err |-> x]

\* an error mapping that loses the value
MapErrLosesValue(x) == EventLoopClosed(NoEvent)

\* map_err(|channel::SendError(x)| EventLoopClosed(x))
MapErr(x) == EventLoopClosed(x)

\* send_event, up to the `?`: the value is sent, an error returns at once.
\* (After a failed new() a run explores one send_event: see New.)
SendEvent(p) ==
  /\ ProcessAlive
  /\ proxy[p] = "live"
  /\ pc[p] = "idle"
  /\ nSends < MaxSends
  /\ lastNew.outcome = "fatal" => nSends = 0
  /\ nSends' = nSends + 1
  /\ LET x == [src |-> p, n |-> nSends + 1, late |-> exitObserved]
         r == ChannelSend(queue, receiverAlive, x)
     IN /\ arg' = [arg EXCEPT ![p] = IF r.ok THEN NoEvent ELSE x]
        /\ queue' = r.queue
        /\ IF r.ok
           THEN /\ pc' = [pc EXCEPT ![p] = "signal"]
                /\ sentOk' = Append(sentOk, x)
                /\ oks' = [oks EXCEPT ![p] = @ + 1]
                /\ result' = [result EXCEPT ![p] = NoResult]
           ELSE /\ result' = [result EXCEPT ![p] = MapErr(r.err)]
                /\ UNCHANGED <<pc, sentOk, oks>>
  /\ UNCHANGED <<newVars, loopState, receiverAlive, delivered, proxy,
                 srcValid, signals, wakes, wakePending, hostVars,
                 flowVars>>
  /\ UNCHANGED <<deadlineReached, viewVars>>

\* a send_event that wakes the loop only when it may be asleep
SendSignalAndWakeUnlessPoll(p) ==
  /\ ProcessAlive
  /\ pc[p] = "signal"
  /\ signals' = [signals EXCEPT ![p] = @ + 1]
  /\ IF control_flow = Poll
     THEN UNCHANGED <<wakePending, wakes>>
     ELSE /\ wakePending' = TRUE
          /\ wakes' = [wakes EXCEPT ![p] = @ + 1]
  /\ result' = [result EXCEPT ![p] = Ok]
  /\ pc' = [pc EXCEPT ![p] = "idle"]
  /\ UNCHANGED <<newVars, loopState, chanVars, proxy, arg, srcValid, oks,
                 hostVars, flowVars>>
  /\ UNCHANGED <<deadlineReached, viewVars>>

\* send_event after the `?`: CFRunLoopSourceSignal(self.source), then
\* CFRunLoopWakeUp(CFRunLoopGetMain()), then Ok(())
SendSignalAndWake(p) ==
  /\ ProcessAlive
  /\ pc[p] = "signal"
  /\ signals' = [signals EXCEPT ![p] = @ + 1]
  /\ wakePending' = TRUE
  /\ wakes' = [wakes EXCEPT ![p] = @ + 1]
  /\ result' = [result EXCEPT ![p] = Ok]
  /\ pc' = [pc EXCEPT ![p] = "idle"]
  /\ UNCHANGED <<newVars, loopState, chanVars, proxy, arg, srcValid, oks,
                 hostVars, flowVars>>
  /\ UNCHANGED <<deadlineReached, viewVars>>

\* ------------------------------------------------------- the host run loop
\* The main run loop starts a run of the default mode and the Entry activity
\* reaches the observers registered for it.
HostEnterObserved ==
  /\ runState = "launched"
  /\ ObserversFor("Entry") # <<>>
  /\ runState' = "notify"
  /\ activity' = "Entry"
  /\ pending' = ObserversFor("Entry")
  /\ UNCHANGED <<newVars, loopState, chanVars, proxyVars, wakePending, cb, cbpc,
                 trace, flowVars>>
  /\ UNCHANGED <<deadlineReached, viewVars>>

\* The run of the default mode starts and no Entry activity reaches the Begin
\* observer: the case control_flow_begin_handler expects ("not expected to
\* ever happen").
HostEnterUnobserved ==
  /\ runState = "launched"
  /\ runState' = "awake"
  /\ UNCHANGED <<newVars, loopState, chanVars, proxyVars, wakePending, activity,
                 pending, cb, cbpc, trace, flowVars>>
  /\ UNCHANGED <<deadlineReached, viewVars>>

\* The loop is about to sleep.
HostBeforeWaiting ==
  /\ runState = "awake"
  /\ runState' = "notify"
  /\ activity' = "BeforeWaiting"
  /\ pending' = ObserversFor("BeforeWaiting")
  /\ UNCHANGED <<newVars, loopState, chanVars, proxyVars, wakePending, cb, cbpc,
                 trace, flowVars>>
  /\ UNCHANGED <<deadlineReached, viewVars>>

\* The run of the default mode ends (the mode changes to another one).
HostExitMode ==
  /\ runState = "awake"
  /\ runState' = "notify"
  /\ activity' = "Exit"
  /\ pending' = ObserversFor("Exit")
  /\ UNCHANGED <<newVars, loopState, chanVars, proxyVars, wakePending, cb, cbpc,
                 trace, flowVars>>
  /\ UNCHANGED <<deadlineReached, viewVars>>

\* The sleeping loop is woken by CFRunLoopWakeUp.
HostWakeBySignal ==
  /\ runState = "sleeping"
  /\ wakePending
  /\ wakePending' = FALSE
  /\ runState' = "notify"
  /\ activity' = "AfterWaiting"
  /\ pending' = ObserversFor("AfterWaiting")
  /\ trace' = <<>>
  /\ UNCHANGED <<newVars, loopState, chanVars, proxyVars, cb, cbpc, flowVars>>
  /\ deadlineReached' = FALSE
  /\ UNCHANGED viewVars

\* The sleeping loop is woken by the host for native input or for another
\* source of the run loop.
HostWakeByHost ==
  /\ runState = "sleeping"
  /\ ~wakePending
  /\ runState' = "notify"
  /\ activity' = "AfterWaiting"
  /\ pending' = ObserversFor("AfterWaiting")
  /\ trace' = <<>>
  /\ UNCHANGED <<newVars, loopState, chanVars, proxyVars, wakePending, cb, cbpc,
                 flowVars>>
  /\ deadlineReached' = FALSE
  /\ UNCHANGED viewVars

\* Monotonic time reaches the deadline t of the WaitUntil(t) the loop sleeps
\* under.
DeadlinePasses ==
  /\ runState = "sleeping"
  /\ control_flow.tag = "WaitUntil"
  /\ ~deadlineReached
  /\ deadlineReached' = TRUE
  /\ UNCHANGED <<newVars, loopState, chanVars, proxyVars, wakePending, hostVars,
                 flowVars, viewVars>>

\* The sleeping loop is woken by the timer requested for WaitUntil(t).
HostWakeByTimer ==
  /\ runState = "sleeping"
  /\ ~wakePending
  /\ control_flow.tag = "WaitUntil"
  /\ deadlineReached
  /\ runState' = "notify"
  /\ activity' = "AfterWaiting"
  /\ pending' = ObserversFor("AfterWaiting")
  /\ trace' = <<>>
  /\ deadlineReached' = FALSE
  /\ UNCHANGED <<newVars, loopState, chanVars, proxyVars, wakePending, cb, cbpc,
                 flowVars>>
  /\ UNCHANGED viewVars

\* An observer of the host itself is called.
HostObserverFires ==
  /\ runState = "notify"
  /\ cb = "none"
  /\ pending # <<>>
  /\ Head(pending) \in HostObservers
  /\ pending' = Tail(pending)
  /\ trace' = IF activity = "BeforeWaiting"
              THEN Append(trace, Head(pending).name) ELSE trace
  /\ UNCHANGED <<newVars, loopState, chanVars, proxyVars, wakePending, runState,
                 activity, cb, cbpc, flowVars>>
  /\ UNCHANGED <<deadlineReached, viewVars>>

\* All observers of the activity have been called.
HostNotifyDone ==
  /\ runState = "notify"
  /\ cb = "none"
  /\ pending = <<>>
  /\ runState' = CASE activity = "BeforeWaiting" -> "sleeping"
                   [] activity = "Exit" -> "launched"
                   [] OTHER -> "awake"
  /\ activity' = "-"
  /\ UNCHANGED <<newVars, loopState, chanVars, proxyVars, wakePending, pending,
                 cb, cbpc, trace, flowVars>>
  /\ UNCHANGED <<deadlineReached, viewVars>>

\* ------------------------------------------- the three observer callbacks
\* app_state::handle_wakeup_transition, handle_main_events_cleared and
\* handle_events_cleared start a dispatcher pass
StartCallback(name) ==
  /\ cb' = name
  /\ cbpc' = "marker"
  /\ trace' = Append(trace, name)

control_flow_begin_handler ==
  /\ runState = "notify"
  /\ cb = "none"
  /\ pending # <<>>
  /\ Head(pending) = BeginObserver
  /\ CASE activity = "AfterWaiting" ->
            /\ StartCallback("wakeup")
            /\ UNCHANGED <<runState, pending>>
       [] activity = "Entry" ->
            \* unimplemented!()
            /\ runState' = "crashed"
            /\ UNCHANGED <<pending, cb, cbpc, trace>>
       [] OTHER ->
            \* unreachable!()
            /\ runState' = "crashed"
            /\ UNCHANGED <<pending, cb, cbpc, trace>>
  /\ UNCHANGED <<newVars, loopState, chanVars, proxyVars, wakePending, activity,
                 flowVars>>
  /\ UNCHANGED <<deadlineReached, viewVars>>

control_flow_main_end_handler ==
  /\ runState = "notify"
  /\ cb = "none"
  /\ pending # <<>>
  /\ Head(pending) = MainEndObserver
  /\ CASE activity = "BeforeWaiting" ->
            /\ StartCallback("main_events_cleared")
            /\ UNCHANGED <<runState, pending>>
       [] activity = "Exit" ->
            /\ pending' = Tail(pending)
            /\ UNCHANGED <<runState, cb, cbpc, trace>>
       [] OTHER ->
            /\ runState' = "crashed"
            /\ UNCHANGED <<pending, cb, cbpc, trace>>
  /\ UNCHANGED <<newVars, loopState, chanVars, proxyVars, wakePending, activity,
                 flowVars>>
  /\ UNCHANGED <<deadlineReached, viewVars>>

control_flow_end_handler ==
  /\ runState = "notify"
  /\ cb = "none"
  /\ pending # <<>>
  /\ Head(pending) = EndObserver
  /\ CASE activity = "BeforeWaiting" ->
            /\ StartCallback("events_cleared")
            /\ UNCHANGED <<runState, pending>>
       [] activity = "Exit" ->
            /\ pending' = Tail(pending)
            /\ UNCHANGED <<runState, cb, cbpc, trace>>
       [] OTHER ->
            /\ runState' = "crashed"
            /\ UNCHANGED <<pending, cb, cbpc, trace>>
  /\ UNCHANGED <<newVars, loopState, chanVars, proxyVars, wakePending, activity,
                 flowVars>>
  /\ UNCHANGED <<deadlineReached, viewVars>>

\* ------------------------------------------------------- EventLoopHandler
\* (self.f)(event, &self.event_loop, control_flow): the closure gets the
\* ControlFlow by mutable reference and may assign it
CallHandler(cf, w) == IF w = Keep THEN cf ELSE w

\* handle_nonuser_event: the phase-marker event of the pass
handle_nonuser_event(w) ==
  /\ runState = "notify"
  /\ cb # "none"
  /\ cbpc = "marker"
  /\ control_flow' = CallHandler(control_flow, w)
  /\ exitObserved' = (exitObserved \/ IsExit(w))
  /\ UNCHANGED drainedPastExit
  /\ cbpc' = "drain"
  /\ UNCHANGED <<newVars, loopState, chanVars, proxyVars, wakePending, runState,
                 activity, pending, cb, trace>>
  /\ UNCHANGED <<deadlineReached, viewVars>>

\* a drain that leaves the last queued event behind
TryIterLeavesLast == Len(queue) > 1

\* a drain that stops once the closure has asked to exit
TryIterUnlessExit == queue # <<>> /\ ~IsExit(control_flow)

\* receiver.try_iter(): the next element, while the channel is not empty
TryIterHasNext == queue # <<>>

\* handle_user_events, one turn of the for loop
handle_user_events_next(w) ==
  /\ runState = "notify"
  /\ cb # "none"
  /\ cbpc = "drain"
  /\ TryIterHasNext
  /\ queue' = Tail(queue)
  /\ delivered' = Append(delivered, Head(queue))
  /\ control_flow' = CallHandler(control_flow, w)
  /\ exitObserved' = (exitObserved \/ IsExit(w))
  /\ drainedPastExit' = (drainedPastExit \/ (exitObserved /\ ~Head(queue).late))
  /\ UNCHANGED <<newVars, loopState, receiverAlive, nSends, sentOk, proxyVars,
                 wakePending, hostVars>>
  /\ UNCHANGED <<deadlineReached, viewVars>>

\* handle_user_events, the iterator is exhausted and the function returns
handle_user_events_done ==
  /\ runState = "notify"
  /\ cb # "none"
  /\ cbpc = "drain"
  /\ ~TryIterHasNext
  /\ cbpc' = "return"
  /\ UNCHANGED <<newVars, loopState, chanVars, proxyVars, wakePending, runState,
                 activity, pending, cb, trace, flowVars>>
  /\ UNCHANGED <<deadlineReached, viewVars>>

\* The dispatcher pass returns to the observer.  At the End boundary the
\* bridge computes the next wake from the policy: ExitWithCode requests no
\* further wake and the process is torn down.
CallbackReturn ==
  /\ runState = "notify"
  /\ cb # "none"
  /\ cbpc = "return"
  /\ cb' = "none"
  /\ cbpc' = "-"
  /\ pending' = Tail(pending)
  /\ runState' = IF cb = "events_cleared" /\ IsExit(control_flow)
                 THEN "terminated" ELSE runState
  /\ UNCHANGED <<newVars, loopState, chanVars, proxyVars, wakePending, activity,
                 trace, flowVars>>
  /\ UNCHANGED <<deadlineReached, viewVars>>

\* ==================================================== the macOS view
\* src/src/platform_impl/macos/view.rs: the callbacks of TaoView for modifier
\* keys (flagsChanged:), keys (keyDown:, keyUp:) and text composition
\* (setMarkedText:, insertText:, unmarkText).  The keyboard and the input
\* context of the host are the environment.  event.rs, keyboard.rs and
\* app_state.rs are not part of the sources: create_key_event, event_mods,
\* from_scancode and queue_event are modelled from spec.md (3, 4.4, 4.5, 6).

\* ------------------------------------------------------------------ bounds
\* flagsChanged: messages the view receives
MaxFlagChanges == 5
\* characters of a committed string
MaxLen == 2

\* ------------------------------------------------------------ the keyboard
ModifierKeys ==
  {"ShiftLeft", "ShiftRight", "ControlLeft", "ControlRight",
   "AltLeft", "AltRight", "SuperLeft", "SuperRight"}
\* the other keys pressed in the model
Keys == {"ArrowUp", "ArrowDown", "ArrowLeft", "ArrowRight", "KeyB"}

\* [NSEvent keyCode] of a physical key (the macOS virtual key codes)
get_scancode(k) ==
  CASE k = "KeyA" -> 0
    [] k = "KeyB" -> 11
    [] k = "Period" -> 47
    [] k = "SuperRight" -> 54
    [] k = "SuperLeft" -> 55
    [] k = "ShiftLeft" -> 56
    [] k = "AltLeft" -> 58
    [] k = "ControlLeft" -> 59
    [] k = "ShiftRight" -> 60
    [] k = "AltRight" -> 61
    [] k = "ControlRight" -> 62
    [] k = "ArrowLeft" -> 123
    [] k = "ArrowRight" -> 124
    [] k = "ArrowDown" -> 125
    [] k = "ArrowUp" -> 126

\* KeyCode::from_scancode: the key-code translation table
from_scancode(sc) ==
  CASE sc = 0 -> "KeyA"
    [] sc = 11 -> "KeyB"
    [] sc = 47 -> "Period"
    [] sc = 54 -> "SuperRight"
    [] sc = 55 -> "SuperLeft"
    [] sc = 56 -> "ShiftLeft"
    [] sc = 58 -> "AltLeft"
    [] sc = 59 -> "ControlLeft"
    [] sc = 60 -> "ShiftRight"
    [] sc = 61 -> "AltRight"
    [] sc = 62 -> "ControlRight"
    [] sc = 123 -> "ArrowLeft"
    [] sc = 124 -> "ArrowRight"
    [] sc = 125 -> "ArrowDown"
    [] sc = 126 -> "ArrowUp"
    [] OTHER -> "Unidentified"

\* the NSEventModifierFlags bit of the family of a modifier key
NSFlagOf(k) ==
  CASE k \in {"ShiftLeft", "ShiftRight"} -> "Shift"
    [] k \in {"ControlLeft", "ControlRight"} -> "Control"
    [] k \in {"AltLeft", "AltRight"} -> "Option"
    [] k \in {"SuperLeft", "SuperRight"} -> "Command"

\* [NSEvent modifierFlags] while the keys of ks are held
modifierFlags(ks) == {NSFlagOf(k) : k \in ks}

\* event_mods: the ModifiersState of the flags of an event
event_mods(flags) ==
  {CASE f = "Shift" -> "SHIFT"
     [] f = "Control" -> "CONTROL"
     [] f = "Option" -> "ALT"
     [] f = "Command" -> "SUPER" : f \in flags}

\* is_arrow_key without ArrowRight
is_arrow_key_no_right(keycode) ==
  keycode \in {"ArrowUp", "ArrowDown", "ArrowLeft"}

is_arrow_key(keycode) ==
  keycode \in {"ArrowUp", "ArrowDown", "ArrowLeft", "ArrowRight"}

\* ------------------------------------------------------------------ events
\* create_key_event(ns_event, is_press, is_repeat, in_ime, key_override)
create_key_event(scancode, is_press, is_repeat, in_ime, key_override) ==
  [physical_key |-> IF key_override = "None" THEN from_scancode(scancode)
                    ELSE key_override,
   state |-> IF is_press THEN "Pressed" ELSE "Released",
   repeat |-> is_repeat,
   in_ime |-> in_ime]

KeyboardInput(key_event) == [type |-> "KeyboardInput", event |-> key_event]
ModifiersChanged(mods) == [type |-> "ModifiersChanged", mods |-> mods]
ReceivedImeText(string) == [type |-> "ReceivedImeText", text |-> string]

\* AppState::queue_event: the event goes to the end of the event queue
queue_event(q, e) == Append(q, e)

\* ----------------------------------------------------------------- strings
\* code points on both sides of every bound of the ranges of
\* is_corporate_character, and the letter a
Chars ==
  {97, 63231, 63232, 63303, 63304, 63489, 63490, 63567, 63568, 63569, 63579,
   63580, 63581, 63582, 63583, 63584, 63595, 63596, 63599, 63600, 63743, 63744}
Strings == UNION {[1..n -> Chars] : n \in 0..MaxLen}

\* is_corporate_character that lets U+F850 through
is_corporate_character_no_F850(c) ==
  \/ 63232 <= c /\ c <= 63303
  \/ 63490 <= c /\ c <= 63567
  \/ c = 63580
  \/ c = 63581
  \/ c = 63583
  \/ 63584 <= c /\ c <= 63595
  \/ 63600 <= c /\ c <= 63743

\* is_corporate_character: U+F700..=F747 | F802..=F84F | F850 | F85C | F85D |
\* F85F | F860..=F86B | F870..=F8FF
is_corporate_character(c) ==
  \/ 63232 <= c /\ c <= 63303
  \/ 63490 <= c /\ c <= 63567
  \/ c = 63568
  \/ c = 63580
  \/ c = 63581
  \/ c = 63583
  \/ 63584 <= c /\ c <= 63595
  \/ 63600 <= c /\ c <= 63743

\* the IME callbacks of the NSTextInputClient protocol, as the input context
\* makes them; the string is an NSString or an NSAttributedString
SetMarkedTextCall(attr, s) == [sel |-> "setMarkedText", attributed |-> attr, chars |-> s]
InsertTextCall(attr, s) == [sel |-> "insertText", attributed |-> attr, chars |-> s]
UnmarkTextCall == [sel |-> "unmarkText", attributed |-> FALSE, chars |-> <<>>]

\* strings the input context marks, and commits for a key
MarkedStrings == {<<>>, <<12354>>}
TypedStrings == {<<97>>, <<63234, 97>>}
\* what interpretKeyEvents does with one key event
Interps ==
  {<<>>, <<UnmarkTextCall>>}
    \cup {<<SetMarkedTextCall(TRUE, s)>> : s \in MarkedStrings}
    \cup {<<InsertTextCall(FALSE, s)>> : s \in TypedStrings}
    \cup {<<InsertTextCall(FALSE, <<97>>), SetMarkedTextCall(TRUE, <<12354>>)>>}
\* strings committed outside of a key event
Commits == {InsertTextCall(attr, s) : attr \in BOOLEAN, s \in Strings}

\* --------------------------------------------------------- the view object
\* new_view and init_with_tao
NewViewState ==
  [in_ime_preedit |-> FALSE, key_triggered_ime |-> FALSE, is_key_down |-> FALSE,
   modifiers |-> {}, phys_modifiers |-> {}]

NoCallback ==
  [cb |-> "none", scancode |-> 0, flags |-> {}, is_repeat |-> FALSE, calls |-> <<>>]

\* the view as a callback finds it: its state and ivar, no event queued and
\* no message sent yet
Enter == [state |-> state, markedText |-> markedText, events |-> <<>>, msgs |-> <<>>]

\* an update_potentially_stale_modifiers that queues no ModifiersChanged
update_potentially_stale_modifiers_silent(m, flags) ==
  [m EXCEPT !.state.modifiers = event_mods(flags)]

\* update_potentially_stale_modifiers
update_potentially_stale_modifiers(m, flags) ==
  LET event_modifiers == event_mods(flags) IN
    IF m.state.modifiers # event_modifiers
    THEN [m EXCEPT !.state.modifiers = event_modifiers,
                   !.events = queue_event(@, ModifiersChanged(event_modifiers))]
    ELSE m

\* the characters of the string handed to a callback: those of [string
\* string] for an NSAttributedString, those of the NSString itself otherwise
CharactersOf(call) == call.chars

\* a set_marked_text that does not record that the key brought a composition
set_marked_text_no_flag(m, call) ==
  [m EXCEPT !.markedText = CharactersOf(call),
            !.state.in_ime_preedit = TRUE]

\* set_marked_text
set_marked_text(m, call) ==
  [m EXCEPT !.markedText = CharactersOf(call),
            !.state.in_ime_preedit = TRUE,
            !.state.key_triggered_ime = TRUE]

\* has_marked_text
has_marked_text(m) == Len(m.markedText) > 0

\* an unmark_text that also ends the composition
unmark_text_idle(m) ==
  [m EXCEPT !.markedText = <<>>,
            !.state.in_ime_preedit = FALSE,
            !.msgs = Append(@, "discardMarkedText")]

\* unmark_text
unmark_text(m) ==
  [m EXCEPT !.markedText = <<>>,
            !.msgs = Append(@, "discardMarkedText")]

\* an insert_text that leaves the composition open
insert_text_keeps_preedit(m, call) ==
  LET string == SelectSeq(CharactersOf(call), LAMBDA c : ~is_corporate_character(c))
  IN [m EXCEPT !.state.is_key_down = TRUE,
               !.events = queue_event(@, ReceivedImeText(string))]

\* insert_text
insert_text(m, call) ==
  LET string == SelectSeq(CharactersOf(call), LAMBDA c : ~is_corporate_character(c))
      m1 == [m EXCEPT !.state.is_key_down = TRUE,
                      !.events = queue_event(@, ReceivedImeText(string))]
  IN IF m1.state.in_ime_preedit
     THEN [m1 EXCEPT !.state.in_ime_preedit = FALSE,
                     !.state.key_triggered_ime = TRUE]
     ELSE m1

\* interpretKeyEvents: the input context makes its callbacks in order
RECURSIVE interpretKeyEvents(_, _)
interpretKeyEvents(m, calls) ==
  IF calls = <<>> THEN m
  ELSE LET c == Head(calls)
           m1 == CASE c.sel = "setMarkedText" -> set_marked_text(m, c)
                   [] c.sel = "insertText" -> insert_text(m, c)
                   [] c.sel = "unmarkText" -> unmark_text(m)
       IN interpretKeyEvents(m1, Tail(calls))

\* the eight process_event! calls of flags_changed, in order
ProcessEventCalls ==
  << <<"SHIFT", "Shift", "ShiftLeft">>, <<"SHIFT", "Shift", "ShiftRight">>,
     <<"CONTROL", "Control", "ControlLeft">>, <<"CONTROL", "Control", "ControlRight">>,
     <<"ALT", "Option", "AltLeft">>, <<"ALT", "Option", "AltRight">>,
     <<"SUPER", "Command", "SuperLeft">>, <<"SUPER", "Command", "SuperRight">> >>

\* a process_event! that takes the flag for the state of the key, also for a
\* key already recorded as down
process_event_flag_only(m, scancode, flags, tao_flag, ns_flag, target_key) ==
  LET ns_event_contains_keymask == ns_flag \in flags
      scanned_key == from_scancode(scancode)
      was_pressed == scanned_key \in m.state.phys_modifiers
      actual_key == IF scanned_key = "KeyA" THEN target_key ELSE scanned_key
      matching_keys == scanned_key = "KeyA" \/ scanned_key = target_key
      is_pressed == ns_event_contains_keymask
      event == [create_key_event(scancode, FALSE, FALSE, FALSE, "SuperLeft")
                  EXCEPT !.state = IF is_pressed THEN "Pressed" ELSE "Released",
                         !.physical_key = actual_key]
  IN IF matching_keys /\ is_pressed # was_pressed
     THEN [m EXCEPT
             !.events = Append(@, KeyboardInput(event)),
             !.state.phys_modifiers =
                IF is_pressed THEN @ \cup {target_key} ELSE @ \ {target_key},
             !.state.modifiers =
                IF ns_event_contains_keymask THEN @ \cup {tao_flag}
                ELSE @ \ {tao_flag}]
     ELSE m

\* a process_event! that queues its key event and sets the mask bit without
\* recording the key in phys_modifiers
process_event_unrecorded(m, scancode, flags, tao_flag, ns_flag, target_key) ==
  LET ns_event_contains_keymask == ns_flag \in flags
      scanned_key == from_scancode(scancode)
      was_pressed == scanned_key \in m.state.phys_modifiers
      actual_key == IF scanned_key = "KeyA" THEN target_key ELSE scanned_key
      matching_keys == scanned_key = "KeyA" \/ scanned_key = target_key
      is_pressed ==
        IF scanned_key # "KeyA" /\ matching_keys /\ ns_event_contains_keymask
             /\ was_pressed
        THEN FALSE
        ELSE ns_event_contains_keymask
      event == [create_key_event(scancode, FALSE, FALSE, FALSE, "SuperLeft")
                  EXCEPT !.state = IF is_pressed THEN "Pressed" ELSE "Released",
                         !.physical_key = actual_key]
  IN IF matching_keys /\ is_pressed # was_pressed
     THEN [m EXCEPT
             !.events = Append(@, KeyboardInput(event)),
             !.state.modifiers =
                IF ns_event_contains_keymask THEN @ \cup {tao_flag}
                ELSE @ \ {tao_flag}]
     ELSE m

\* process_event!(tao_flag, ns_flag, target_key) inside flags_changed
process_event(m, scancode, flags, tao_flag, ns_flag, target_key) ==
  LET ns_event_contains_keymask == ns_flag \in flags
      scanned_key == from_scancode(scancode)
      was_pressed == scanned_key \in m.state.phys_modifiers
      actual_key == IF scanned_key = "KeyA" THEN target_key ELSE scanned_key
      matching_keys == scanned_key = "KeyA" \/ scanned_key = target_key
      is_pressed ==
        IF scanned_key # "KeyA" /\ matching_keys /\ ns_event_contains_keymask
             /\ was_pressed
        THEN FALSE
        ELSE ns_event_contains_keymask
      event == [create_key_event(scancode, FALSE, FALSE, FALSE, "SuperLeft")
                  EXCEPT !.state = IF is_pressed THEN "Pressed" ELSE "Released",
                         !.physical_key = actual_key]
  IN IF matching_keys /\ is_pressed # was_pressed
     THEN [m EXCEPT
             !.events = Append(@, KeyboardInput(event)),
             !.state.phys_modifiers =
                IF is_pressed THEN @ \cup {target_key} ELSE @ \ {target_key},
             !.state.modifiers =
                IF ns_event_contains_keymask THEN @ \cup {tao_flag}
                ELSE @ \ {tao_flag}]
     ELSE m

RECURSIVE process_events(_, _, _, _)
process_events(m, scancode, flags, todo) ==
  IF todo = <<>> THEN m
  ELSE process_events(
         process_event(m, scancode, flags, Head(todo)[1], Head(todo)[2], Head(todo)[3]),
         scancode, flags, Tail(todo))

\* a flags_changed that queues ModifiersChanged before the key events
flags_changed_mask_first(m, scancode, flags) ==
  LET m1 == process_events([m EXCEPT !.events = <<>>], scancode, flags, ProcessEventCalls) IN
    [m1 EXCEPT !.events = m.events \o <<ModifiersChanged(m1.state.modifiers)>> \o @]

\* flags_changed: the key events of the eight process_event! calls are queued
\* in order, then ModifiersChanged(state.modifiers)
flags_changed(m, scancode, flags) ==
  LET m1 == process_events(m, scancode, flags, ProcessEventCalls) IN
    [m1 EXCEPT !.events = queue_event(@, ModifiersChanged(m1.state.modifiers))]

\* a key_down that never cancels the composition
key_down_no_cancel(m, ev) ==
  LET is_repeat == ev.is_repeat
      m1 == update_potentially_stale_modifiers(m, ev.flags)
      pass_along == ~is_repeat \/ ~m1.state.is_key_down
      m2 == IF pass_along
            THEN interpretKeyEvents(
                   [m1 EXCEPT !.markedText = <<>>,
                              !.state.key_triggered_ime = FALSE,
                              !.msgs = Append(@, "interpretKeyEvents")],
                   ev.calls)
            ELSE m1
      in_ime == m2.state.key_triggered_ime
      key_event == create_key_event(ev.scancode, TRUE, is_repeat, in_ime, "None")
  IN [m2 EXCEPT !.events = queue_event(@, KeyboardInput(key_event))]

\* a key_down that queues its key event before the events of the callbacks
\* of interpretKeyEvents
key_down_key_first(m, ev) ==
  LET is_repeat == ev.is_repeat
      m1 == update_potentially_stale_modifiers(m, ev.flags)
      pass_along == ~is_repeat \/ ~m1.state.is_key_down
      m2 == IF pass_along
            THEN interpretKeyEvents(
                   [m1 EXCEPT !.markedText = <<>>,
                              !.state.key_triggered_ime = FALSE,
                              !.msgs = Append(@, "interpretKeyEvents")],
                   ev.calls)
            ELSE m1
      in_ime == m2.state.key_triggered_ime
      key_event == create_key_event(ev.scancode, TRUE, is_repeat, in_ime, "None")
      m3 == IF pass_along /\ m2.state.in_ime_preedit /\ ~m2.state.key_triggered_ime
               /\ ~is_arrow_key(key_event.physical_key)
            THEN [unmark_text([m2 EXCEPT !.msgs = Append(@, "unmarkText")])
                    EXCEPT !.state.in_ime_preedit = FALSE]
            ELSE m2
  IN [m3 EXCEPT !.events =
        queue_event(m1.events, KeyboardInput(key_event))
          \o SubSeq(m3.events, Len(m1.events) + 1, Len(m3.events))]

\* key_down; ev.calls is what interpretKeyEvents does with this event
key_down(m, ev) ==
  LET is_repeat == ev.is_repeat
      m1 == update_potentially_stale_modifiers(m, ev.flags)
      pass_along == ~is_repeat \/ ~m1.state.is_key_down
      m2 == IF pass_along
            THEN interpretKeyEvents(
                   [m1 EXCEPT !.markedText = <<>>,
                              !.state.key_triggered_ime = FALSE,
                              !.msgs = Append(@, "interpretKeyEvents")],
                   ev.calls)
            ELSE m1
      in_ime == m2.state.key_triggered_ime
      key_event == create_key_event(ev.scancode, TRUE, is_repeat, in_ime, "None")
      m3 == IF pass_along /\ m2.state.in_ime_preedit /\ ~m2.state.key_triggered_ime
               /\ ~is_arrow_key(key_event.physical_key)
            THEN [unmark_text([m2 EXCEPT !.msgs = Append(@, "unmarkText")])
                    EXCEPT !.state.in_ime_preedit = FALSE]
            ELSE m2
  IN [m3 EXCEPT !.events = queue_event(@, KeyboardInput(key_event))]

\* a key_up that queues nothing for a key that committed no text
key_up_quiet(m, ev) ==
  LET m1 == update_potentially_stale_modifiers(
              [m EXCEPT !.state.is_key_down = FALSE], ev.flags)
  IN IF m.state.is_key_down
     THEN [m1 EXCEPT !.events = queue_event(@,
             KeyboardInput(create_key_event(ev.scancode, FALSE, FALSE, FALSE, "None")))]
     ELSE m1

\* key_up
key_up(m, ev) ==
  LET m1 == update_potentially_stale_modifiers(
              [m EXCEPT !.state.is_key_down = FALSE], ev.flags)
  IN [m1 EXCEPT !.events = queue_event(@,
        KeyboardInput(create_key_event(ev.scancode, FALSE, FALSE, FALSE, "None")))]

\* ------------------------------------------------------ the view callbacks
\* Pressed minus Released events for key k among the events q
NetPressed(q, k) ==
  Cardinality({i \in 1..Len(q) : q[i].type = "KeyboardInput"
                 /\ q[i].event.physical_key = k /\ q[i].event.state = "Pressed"})
  - Cardinality({i \in 1..Len(q) : q[i].type = "KeyboardInput"
                 /\ q[i].event.physical_key = k /\ q[i].event.state = "Released"})

\* a callback returns: m is the view as it leaves it, l the callback
Return(m, l) ==
  /\ state' = m.state
  /\ markedText' = m.markedText
  /\ enqueued' = m.events
  /\ sent' = m.msgs
  /\ last' = l
  /\ notified' =
       (LET changes == SelectSeq(m.events, LAMBDA e : e.type = "ModifiersChanged")
        IN IF changes = <<>> THEN notified ELSE <<changes[Len(changes)].mods>>)
  /\ UNCHANGED loopVars

\* the host sends flagsChanged: with the key code and the flags of the event
FlagsChanged(scancode, flags) ==
  LET m == flags_changed(Enter, scancode, flags) IN
    /\ Return(m, [cb |-> "flags_changed", scancode |-> scancode, flags |-> flags,
                  is_repeat |-> FALSE, calls |-> <<>>])
    /\ balance' = [k \in ModifierKeys |-> balance[k] + NetPressed(m.events, k)]
    /\ flagChanges' = flagChanges + 1
    /\ UNCHANGED <<keyHeld, buttons>>

\* a modifier key goes down
HostModifierDown(k) ==
  /\ flagChanges < MaxFlagChanges
  /\ k \notin held
  /\ held' = held \cup {k}
  /\ FlagsChanged(get_scancode(k), modifierFlags(held \cup {k}))

\* a modifier key goes up
HostModifierUp(k) ==
  /\ flagChanges < MaxFlagChanges
  /\ k \in held
  /\ held' = held \ {k}
  /\ FlagsChanged(get_scancode(k), modifierFlags(held \ {k}))

\* a Control key goes up as the keyboard layout is switched with Ctrl+Space:
\* the event of the release has the key code of KeyA
HostLayoutSwitchUp(k) ==
  /\ flagChanges < MaxFlagChanges
  /\ k \in held
  /\ NSFlagOf(k) = "Control"
  /\ held' = held \ {k}
  /\ FlagsChanged(get_scancode("KeyA"), modifierFlags(held \ {k}))

\* a key goes down, or repeats while it is held; calls is what the input
\* context does when the event reaches it
KeyDown(k, calls) ==
  /\ keyHeld \in {"none", k}
  /\ (keyHeld = k /\ state.is_key_down) => calls = <<>>
  /\ LET ev == [scancode |-> get_scancode(k), is_repeat |-> keyHeld = k,
                flags |-> modifierFlags(held), calls |-> calls]
     IN Return(key_down(Enter, ev),
               [cb |-> "key_down", scancode |-> ev.scancode, flags |-> ev.flags,
                is_repeat |-> ev.is_repeat, calls |-> calls])
  /\ keyHeld' = k
  /\ UNCHANGED <<held, balance, flagChanges, buttons>>

\* the held key goes up
KeyUp ==
  /\ keyHeld # "none"
  /\ LET ev == [scancode |-> get_scancode(keyHeld), is_repeat |-> FALSE,
                flags |-> modifierFlags(held), calls |-> <<>>]
     IN Return(key_up(Enter, ev),
               [cb |-> "key_up", scancode |-> ev.scancode, flags |-> ev.flags,
                is_repeat |-> FALSE, calls |-> <<>>])
  /\ keyHeld' = "none"
  /\ UNCHANGED <<held, balance, flagChanges, buttons>>

\* the input context makes a callback outside of a key event (a candidate is
\* picked with the pointer, the input source changes)
ImeCallback(call) ==
  /\ Return(interpretKeyEvents(Enter, <<call>>),
            [cb |-> call.sel, scancode |-> 0, flags |-> {}, is_repeat |-> FALSE,
             calls |-> <<call>>])
  /\ UNCHANGED <<held, keyHeld, balance, flagChanges, buttons>>

SetMarkedText(s) == ImeCallback(SetMarkedTextCall(TRUE, s))
InsertText(call) == ImeCallback(call)
UnmarkText == ImeCallback(UnmarkTextCall)

\* a modifier key goes down or up while another window has the keyboard: the
\* view gets no flagsChanged:
HostModifierUnseen(k) ==
  /\ held' = (IF k \in held THEN held \ {k} ELSE held \cup {k})
  /\ UNCHANGED <<loopVars, state, markedText, keyHeld, enqueued, sent, last, balance,
                 flagChanges, buttons, notified>>

\* cancel_operation; ev is [NSApp currentEvent]
cancel_operation(m, ev) ==
  LET m1 == update_potentially_stale_modifiers(m, ev.flags)
      scancode == 47
      key == from_scancode(scancode)
  IN [m1 EXCEPT !.events = queue_event(@,
        KeyboardInput(create_key_event(ev.scancode, TRUE, FALSE, FALSE, key)))]

\* the host sends cancelOperation: for Cmd-. while the key event is current
CancelOperation ==
  LET ev == [scancode |-> get_scancode("Period"), flags |-> modifierFlags(held)] IN
    /\ Return(cancel_operation(Enter, ev),
              [cb |-> "cancel_operation", scancode |-> ev.scancode, flags |-> ev.flags,
               is_repeat |-> FALSE, calls |-> <<>>])
    /\ UNCHANGED <<held, keyHeld, balance, flagChanges, buttons>>

\* ------------------------------------------------------- pointer and scroll
\* mouse_motion, mouse_click and scroll_wheel.  dpi.rs is not part of the
\* sources: to_physical is modelled from spec.md (4.6).  Coordinates, scale
\* factors and deltas are whole numbers, which f64 and f32 hold exactly.

\* NSView::frame(this)
ViewRect == [size |-> [width |-> 2, height |-> 3]]
\* convertPoint_fromView(locationInWindow): points inside the view, on each
\* of its edges and beyond each of them
ViewPoints == [x : {-1, 0, 2, 3}, y : {-1, 1, 4}]
\* the points of a click and of a scroll event: inside the view and to its
\* left
NearPoints == {[x |-> 1, y |-> 1], [x |-> -1, y |-> 1]}
\* NSWindow::backingScaleFactor
ScaleFactors == {1, 2}
\* the buttons pressed in the model
MouseButtons == {"Left", "Right"}
\* modifierFlags of a pointer event; the keys may have gone down while
\* another window had the keyboard
PointerFlags == {{}, {"Shift", "Command"}}
\* the values of NSEventPhase
NSEventPhases ==
  {"None", "Began", "Stationary", "Changed", "Ended", "Cancelled", "MayBegin"}
\* scrollingDeltaX, scrollingDeltaY
ScrollDeltas == {[x |-> 3, y |-> -2], [x |-> -1, y |-> 0]}

\* an NSEvent of the pointer as a callback reads it, with what the view and
\* the window return during the callback
PointerEvent(view_point, pressed, scale_factor, flags) ==
  [view_point |-> view_point, view_rect |-> ViewRect, pressedMouseButtons |-> pressed,
   scale_factor |-> scale_factor, flags |-> flags]

ScrollEvent(view_point, pressed, scale_factor, flags, delta, precise, phase) ==
  [view_point |-> view_point, view_rect |-> ViewRect, pressedMouseButtons |-> pressed,
   scale_factor |-> scale_factor, flags |-> flags,
   scrollingDeltaX |-> delta.x, scrollingDeltaY |-> delta.y,
   hasPreciseScrollingDeltas |-> precise, phase |-> phase]

LogicalPosition(x, y) == [x |-> x, y |-> y]
\* LogicalPosition::to_physical
to_physical(p, scale_factor) == [x |-> p.x * scale_factor, y |-> p.y * scale_factor]

PixelDelta(p) == [variant |-> "PixelDelta", x |-> p.x, y |-> p.y]
LineDelta(x, y) == [variant |-> "LineDelta", x |-> x, y |-> y]

CursorMoved(position, modifiers) ==
  [type |-> "CursorMoved", position |-> position, modifiers |-> modifiers]
MouseInput(button_state, button, modifiers) ==
  [type |-> "MouseInput", state |-> button_state, button |-> button,
   modifiers |-> modifiers]
DeviceMouseWheel(delta) == [type |-> "DeviceEvent::MouseWheel", delta |-> delta]
WindowMouseWheel(delta, phase, modifiers) ==
  [type |-> "WindowEvent::MouseWheel", delta |-> delta, phase |-> phase,
   modifiers |-> modifiers]

\* a mouse_motion that reports every position
mouse_motion_always(m, ev) ==
  LET x == ev.view_point.x
      y == ev.view_rect.size.height - ev.view_point.y
      m1 == update_potentially_stale_modifiers(m, ev.flags)
  IN [m1 EXCEPT !.events = queue_event(@,
        CursorMoved(to_physical(LogicalPosition(x, y), ev.scale_factor),
                    event_mods(ev.flags)))]

\* a mouse_motion that keeps the position inside the view
mouse_motion_clamped(m, ev) ==
  LET Clamp(v, hi) == IF v < 0 THEN 0 ELSE IF v > hi THEN hi ELSE v
      view_point == ev.view_point
      view_rect == ev.view_rect
  IN IF (view_point.x < 0 \/ view_point.y < 0
           \/ view_point.x > view_rect.size.width
           \/ view_point.y > view_rect.size.height)
          /\ ev.pressedMouseButtons = {}
     THEN m
     ELSE LET x == Clamp(view_point.x, view_rect.size.width)
              y == Clamp(view_rect.size.height - view_point.y, view_rect.size.height)
              m1 == update_potentially_stale_modifiers(m, ev.flags)
          IN [m1 EXCEPT !.events = queue_event(@,
                CursorMoved(to_physical(LogicalPosition(x, y), ev.scale_factor),
                            event_mods(ev.flags)))]

\* mouse_motion
mouse_motion(m, ev) ==
  LET view_point == ev.view_point
      view_rect == ev.view_rect
  IN IF (view_point.x < 0 \/ view_point.y < 0
           \/ view_point.x > view_rect.size.width
           \/ view_point.y > view_rect.size.height)
          /\ ev.pressedMouseButtons = {}
     THEN m
     ELSE LET x == view_point.x
              y == view_rect.size.height - view_point.y
              m1 == update_potentially_stale_modifiers(m, ev.flags)
          IN [m1 EXCEPT !.events = queue_event(@,
                CursorMoved(to_physical(LogicalPosition(x, y), ev.scale_factor),
                            event_mods(ev.flags)))]

\* a mouse_click that returns as mouse_motion does for a point outside the
\* view with no button held
mouse_click_inside_only(m, ev, button, button_state) ==
  LET view_point == ev.view_point
      view_rect == ev.view_rect
      m1 == update_potentially_stale_modifiers(m, ev.flags)
  IN IF (view_point.x < 0 \/ view_point.y < 0
           \/ view_point.x > view_rect.size.width
           \/ view_point.y > view_rect.size.height)
          /\ ev.pressedMouseButtons = {}
     THEN m
     ELSE [m1 EXCEPT !.events = queue_event(@,
             MouseInput(button_state, button, event_mods(ev.flags)))]

\* mouse_click
mouse_click(m, ev, button, button_state) ==
  LET m1 == update_potentially_stale_modifiers(m, ev.flags) IN
    [m1 EXCEPT !.events = queue_event(@,
       MouseInput(button_state, button, event_mods(ev.flags)))]

\* a scroll_delta that keeps the sign of the horizontal axis
scroll_delta_no_flip(ev) ==
  LET x == ev.scrollingDeltaX
      y == ev.scrollingDeltaY
  IN IF ev.hasPreciseScrollingDeltas
     THEN PixelDelta(to_physical(LogicalPosition(x, y), ev.scale_factor))
     ELSE LineDelta(x, y)

\* the delta of scroll_wheel
scroll_delta(ev) ==
  LET x == ev.scrollingDeltaX * (-1)
      y == ev.scrollingDeltaY
  IN IF ev.hasPreciseScrollingDeltas
     THEN PixelDelta(to_physical(LogicalPosition(x, y), ev.scale_factor))
     ELSE LineDelta(x, y)

\* the phase of scroll_wheel
scroll_phase(phase) ==
  CASE phase \in {"MayBegin", "Began"} -> "Started"
    [] phase = "Ended" -> "Ended"
    [] OTHER -> "Moved"

\* a scroll_wheel that queues the window event before the device event
scroll_wheel_window_first(m, ev) ==
  LET m0 == mouse_motion(m, ev)
      delta == scroll_delta(ev)
      m1 == update_potentially_stale_modifiers(m0, ev.flags)
  IN [m1 EXCEPT !.events =
        queue_event(queue_event(@,
          WindowMouseWheel(delta, scroll_phase(ev.phase), event_mods(ev.flags))),
          DeviceMouseWheel(delta))]

\* scroll_wheel
scroll_wheel(m, ev) ==
  LET m0 == mouse_motion(m, ev)
      delta == scroll_delta(ev)
      phase == scroll_phase(ev.phase)
      device_event == DeviceMouseWheel(delta)
      m1 == update_potentially_stale_modifiers(m0, ev.flags)
      window_event == WindowMouseWheel(delta, phase, event_mods(ev.flags))
  IN [m1 EXCEPT !.events = queue_event(queue_event(@, device_event), window_event)]

\* a pointer callback returns: l.motion is the view as its mouse_motion left it
PointerReturn(m, name, ev) ==
  /\ Return(m, [cb |-> name, scancode |-> 0, flags |-> ev.flags, is_repeat |-> FALSE,
                calls |-> <<>>, ev |-> ev, motion |-> mouse_motion(Enter, ev)])
  /\ UNCHANGED <<held, keyHeld, balance, flagChanges>>

\* mouse_moved, mouse_dragged, right_mouse_dragged, other_mouse_dragged
MouseMoved(view_point, scale_factor, flags) ==
  LET ev == PointerEvent(view_point, buttons, scale_factor, flags) IN
    /\ PointerReturn(mouse_motion(Enter, ev), "mouse_moved", ev)
    /\ UNCHANGED buttons

\* mouse_down, right_mouse_down, other_mouse_down
MouseDown(button, view_point, scale_factor, flags) ==
  LET ev == PointerEvent(view_point, buttons \cup {button}, scale_factor, flags) IN
    /\ button \notin buttons
    /\ buttons' = buttons \cup {button}
    /\ PointerReturn(mouse_click(mouse_motion(Enter, ev), ev, button, "Pressed"),
                     "mouse_down", ev)

\* mouse_up, right_mouse_up, other_mouse_up
MouseUp(button, view_point, scale_factor, flags) ==
  LET ev == PointerEvent(view_point, buttons \ {button}, scale_factor, flags) IN
    /\ button \in buttons
    /\ buttons' = buttons \ {button}
    /\ PointerReturn(mouse_click(mouse_motion(Enter, ev), ev, button, "Released"),
                     "mouse_up", ev)

\* scroll_wheel
ScrollWheel(view_point, scale_factor, flags, delta, precise, phase) ==
  LET ev == ScrollEvent(view_point, buttons, scale_factor, flags, delta, precise, phase) IN
    /\ PointerReturn(scroll_wheel(Enter, ev), "scroll_wheel", ev)
    /\ UNCHANGED buttons

ViewInit ==
  /\ state = NewViewState
  /\ markedText = <<>>
  /\ held = {}
  /\ keyHeld = "none"
  /\ enqueued = <<>>
  /\ sent = <<>>
  /\ last = NoCallback
  /\ balance = [k \in ModifierKeys |-> 0]
  /\ flagChanges = 0
  /\ buttons = {}
  /\ notified = <<>>

Init ==
  /\ SINGLETON_INIT = FALSE
  /\ lastNew = [thread |-> "-", flag |-> FALSE, outcome |-> "-"]
  /\ constructed = 0
  /\ observers = HostObservers
  /\ loopState = "none"
  /\ receiverAlive = FALSE
  /\ queue = <<>>
  /\ delivered = <<>>
  /\ nSends = 0
  /\ sentOk = <<>>
  /\ proxy = [p \in Proxies |-> "none"]
  /\ pc = [p \in Proxies |-> "idle"]
  /\ arg = [p \in Proxies |-> NoEvent]
  /\ result = [p \in Proxies |-> NoResult]
  /\ srcValid = [p \in Proxies |-> FALSE]
  /\ signals = [p \in Proxies |-> 0]
  /\ wakes = [p \in Proxies |-> 0]
  /\ oks = [p \in Proxies |-> 0]
  /\ wakePending = FALSE
  /\ runState = "init"
  /\ activity = "-"
  /\ pending = <<>>
  /\ cb = "none"
  /\ cbpc = "-"
  /\ trace = <<>>
  /\ control_flow \in {Poll, Wait} \cup {WaitUntil(t) : t \in Deadlines}
  /\ exitObserved = FALSE
  /\ drainedPastExit = FALSE
  /\ deadlineReached = FALSE
  /\ ViewInit

Next ==
  \/ \E t \in Threads : New(t)
  \/ DropEventLoop
  \/ Run
  \/ CreateProxy
  \/ CloneProxy
  \/ \E p \in Proxies : DropProxy(p)
  \/ \E p \in Proxies : SendEvent(p)
  \/ \E p \in Proxies : SendSignalAndWake(p)
  \/ HostEnterObserved
  \/ HostEnterUnobserved
  \/ HostBeforeWaiting
  \/ HostExitMode
  \/ HostWakeBySignal
  \/ HostWakeByHost
  \/ DeadlinePasses
  \/ HostWakeByTimer
  \/ HostObserverFires
  \/ HostNotifyDone
  \/ control_flow_begin_handler
  \/ control_flow_main_end_handler
  \/ control_flow_end_handler
  \/ \E w \in HandlerWrites : handle_nonuser_event(w)
  \/ \E w \in HandlerWrites : handle_user_events_next(w)
  \/ handle_user_events_done
  \/ CallbackReturn

Spec == Init /\ [][Next]_vars

\* the view of a window, with the event loop not yet constructed
InitView == Init /\ control_flow = Wait

\* the modifier keys: flagsChanged: for every key that goes down or up, and
\* the events of one other key, which carry the modifier flags too
ModifiersNext ==
  \/ \E k \in ModifierKeys : HostModifierDown(k)
  \/ \E k \in ModifierKeys : HostModifierUp(k)
  \/ \E k \in ModifierKeys : HostLayoutSwitchUp(k)
  \/ KeyDown("KeyB", <<>>)
  \/ KeyUp

SpecModifiers == InitView /\ [][ModifiersNext]_vars

\* keys and text composition, while no modifier key is held
KeysNext ==
  \/ \E k \in Keys, calls \in Interps : KeyDown(k, calls)
  \/ KeyUp
  \/ \E s \in MarkedStrings : SetMarkedText(s)
  \/ \E s \in TypedStrings : InsertText(InsertTextCall(FALSE, s))
  \/ UnmarkText

SpecKeys == InitView /\ [][KeysNext]_vars

\* the text callbacks alone: a composition, then one commit, over every
\* string of Strings
TextNext ==
  \/ last.cb # "insertText" /\ \E s \in MarkedStrings : SetMarkedText(s)
  \/ last.cb # "insertText" /\ \E call \in Commits : InsertText(call)

SpecText == InitView /\ [][TextNext]_vars

\* the pointer: motion, buttons and the scroll wheel
PointerNext ==
  \/ \E view_point \in ViewPoints, scale_factor \in ScaleFactors, flags \in PointerFlags :
       MouseMoved(view_point, scale_factor, flags)
  \/ \E button \in MouseButtons, view_point \in NearPoints, flags \in PointerFlags :
       MouseDown(button, view_point, 1, flags)
  \/ \E button \in MouseButtons, view_point \in NearPoints, flags \in PointerFlags :
       MouseUp(button, view_point, 1, flags)
  \/ \E view_point \in NearPoints, scale_factor \in ScaleFactors, flags \in PointerFlags,
        delta \in ScrollDeltas, precise \in BOOLEAN, phase \in NSEventPhases :
       ScrollWheel(view_point, scale_factor, flags, delta, precise, phase)

SpecPointer == InitView /\ [][PointerNext]_vars

\* the modifier keys pressed while the keyboard focus comes and goes
FocusKeys == {"ShiftLeft", "ShiftRight", "ControlLeft"}

\* modifier keys seen and unseen by the view, and one other key, which may
\* commit a letter
FocusNext ==
  \/ \E k \in FocusKeys : HostModifierDown(k)
  \/ \E k \in FocusKeys : HostModifierUp(k)
  \/ \E k \in FocusKeys : HostModifierUnseen(k)
  \/ \E calls \in {<<>>, <<InsertTextCall(FALSE, <<97>>)>>} : KeyDown("KeyB", calls)
  \/ KeyUp

SpecFocus == InitView /\ [][FocusNext]_vars

\* every callback of the view, each with few inputs
CallbacksNext ==
  \/ \E s \in MarkedStrings : SetMarkedText(s)
  \/ InsertText(InsertTextCall(FALSE, <<97>>))
  \/ UnmarkText
  \/ \E k \in {"KeyB", "ArrowLeft"}, calls \in Interps : KeyDown(k, calls)
  \/ KeyUp
  \/ HostModifierDown("ShiftLeft")
  \/ HostModifierUp("ShiftLeft")
  \/ CancelOperation
  \/ \E view_point \in NearPoints : MouseMoved(view_point, 1, modifierFlags(held))
  \/ \E view_point \in NearPoints : MouseDown("Left", view_point, 1, modifierFlags(held))
  \/ \E view_point \in NearPoints : MouseUp("Left", view_point, 1, modifierFlags(held))
  \/ \E view_point \in NearPoints :
       ScrollWheel(view_point, 1, modifierFlags(held), [x |-> 3, y |-> -2], FALSE, "Changed")

SpecCallbacks == InitView /\ [][CallbacksNext]_vars

\* ------------------------------------------------------------------ claims
SeqToSet(sq) == {sq[i] : i \in 1..Len(sq)}
Count(sq, x) == Cardinality({i \in 1..Len(sq) : sq[i] = x})
IndexOf(sq, x) == CHOOSE i \in 1..Len(sq) : sq[i] = x
FromProxy(sq, p) == SelectSeq(sq, LAMBDA e : e.src = p)
IsPrefix(a, b) == Len(a) <= Len(b) /\ SubSeq(b, 1, Len(a)) = a

C1_NewLogOk ==
  /\ constructed <= 1
  /\ lastNew.outcome = "ok" <=> (lastNew.thread = "main" /\ ~lastNew.flag)
  /\ lastNew.outcome = "fatal" <=> (lastNew.thread = "worker" \/ lastNew.flag)
  /\ constructed >= 1 => SINGLETON_INIT
  /\ SINGLETON_INIT => constructed = 1

\* C1: at most one EventLoop is ever constructed; new() returns an EventLoop
\* only on the main thread with the guard flag clear and is fatal otherwise;
\* once set, SINGLETON_INIT is never reset by any step.
C1_AtMostOneEventLoop ==
  []C1_NewLogOk /\ [][SINGLETON_INIT => SINGLETON_INIT']_vars

\* a second new() on the main thread has failed while the first loop runs
C1_Witness ==
  /\ constructed = 1
  /\ lastNew = [thread |-> "main", flag |-> TRUE, outcome |-> "fatal"]
  /\ runState = "sleeping"

\* C2: a send_event the channel accepted signals the proxy's source and wakes
\* the main run loop exactly once, under every policy; so while an accepted
\* event is still queued and no send is in progress, a sleeping loop has a
\* wake-up pending.
C2_SendSignalsAndWakes ==
  /\ \A p \in Proxies :
       /\ pc[p] = "idle" => (signals[p] = oks[p] /\ wakes[p] = oks[p])
       /\ pc[p] = "signal" => (oks[p] = signals[p] + 1 /\ wakes[p] = signals[p])
       /\ result[p] = Ok => oks[p] >= 1
  /\ (runState = "sleeping" /\ queue # <<>> /\ \A p \in Proxies : pc[p] = "idle")
       => wakePending

\* a send completed under Poll and one under a sleeping policy
C2_Witness ==
  /\ runState = "sleeping"
  /\ control_flow \in {Wait} \cup {WaitUntil(t) : t \in Deadlines}
  /\ queue # <<>>
  /\ wakePending
  /\ \E p \in Proxies : result[p] = Ok /\ pc[p] = "idle" /\ wakes[p] = 1

\* C3: a send_event called when no Receiver of the channel is left returns
\* Closed carrying the value it was called with, enqueues nothing and reports
\* no success.
C3_ClosedReturnsValue ==
  [][(nSends' = nSends + 1 /\ loopState = "dropped") =>
       \E p \in Proxies :
         /\ result'[p] = EventLoopClosed([src |-> p, n |-> nSends + 1,
                                          late |-> exitObserved])
         /\ arg'[p] = result'[p].val
         /\ pc'[p] = "idle"
         /\ queue' = queue
         /\ sentOk' = sentOk
         /\ oks' = oks]_vars

\* a send after the loop was dropped came back with its value
C3_Witness ==
  /\ loopState = "dropped"
  /\ \E p \in Proxies :
       result[p].tag = "Closed" /\ result[p].val.src = p /\ result[p].val.n = nSends

C4_DrainInv ==
  /\ receiverAlive => delivered \o queue = sentOk
  /\ \A i, j \in 1..Len(delivered) : delivered[i] = delivered[j] => i = j
  /\ \A p \in Proxies : IsPrefix(FromProxy(delivered, p), FromProxy(sentOk, p))
  /\ SeqToSet(delivered) \subseteq SeqToSet(sentOk)

\* C4: the drain hands every accepted user event to the closure exactly once,
\* those of one proxy in the order they were sent, and handle_user_events
\* returns only when the queue is empty.
C4_DrainsFully ==
  []C4_DrainInv /\ [][(cbpc = "drain" /\ cbpc' = "return") => queue' = <<>>]_vars

\* a drain has returned after delivering two events of one proxy
C4_Witness ==
  /\ cbpc = "return"
  /\ Len(delivered) = 2
  /\ delivered[1].src = delivered[2].src
  /\ queue = <<>>

\* C5: every user event enqueued before the closure set ExitWithCode has been
\* delivered when the drain returns and when the process terminates.
C5_DeliveredBeforeTermination ==
  (exitObserved /\ (runState = "terminated" \/ cbpc = "return")) =>
     \A e \in SeqToSet(sentOk) : ~e.late => e \in SeqToSet(delivered)

\* the process terminated and an event enqueued before the exit was delivered
\* after the closure had set ExitWithCode
C5_Witness ==
  /\ runState = "terminated"
  /\ drainedPastExit

\* C6: no user event enqueued after the closure set ExitWithCode is delivered.
C6_NoDeliveryAfterExit ==
  \A e \in SeqToSet(delivered) : ~e.late

\* C7: once control_flow is ExitWithCode no step changes it.
C7_ExitIsTerminal ==
  [][IsExit(control_flow) => control_flow' = control_flow]_vars

\* C8: in every cycle main_events_cleared is preceded by the wakeup transition
\* and events_cleared by main_events_cleared.
C8_PhaseOrder ==
  /\ \A i \in 1..Len(trace) : trace[i] = "main_events_cleared" =>
       \E j \in 1..(i - 1) : trace[j] = "wakeup"
  /\ \A i \in 1..Len(trace) : trace[i] = "events_cleared" =>
       \E j \in 1..(i - 1) : trace[j] = "main_events_cleared"

\* C9: in a BeforeWaiting notification main_events_cleared runs before the
\* host's redraw observer, events_cleared after it and after every other
\* observer, each exactly once; the registered orders are strictly ordered
\* Begin < MainEnd < host redraw < End.
C9_BeforeWaitingOrder ==
  /\ Count(trace, "main_events_cleared") <= 1
  /\ Count(trace, "events_cleared") <= 1
  /\ Count(trace, "host_redraw") = 1 =>
       /\ Count(trace, "main_events_cleared") = 1
       /\ IndexOf(trace, "main_events_cleared") < IndexOf(trace, "host_redraw")
  /\ Count(trace, "events_cleared") = 1 =>
       /\ IndexOf(trace, "events_cleared") = Len(trace)
       /\ Count(trace, "host_redraw") = 1
       /\ Count(trace, "host_early") = 1
       /\ Count(trace, "host_late") = 1
  /\ runState = "sleeping" =>
       (Count(trace, "main_events_cleared") = 1 /\ Count(trace, "events_cleared") = 1)
  /\ \A b, m, e \in observers :
       (b.name = "begin" /\ m.name = "main_end" /\ e.name = "end") =>
         (b.order < m.order /\ m.order < CoreAnimationOrder
            /\ CoreAnimationOrder < e.order)

\* a notification has completed after a wake-up
C9_Witness ==
  /\ runState = "sleeping"
  /\ trace = <<"wakeup", "host_early", "main_events_cleared", "host_redraw",
               "host_late", "events_cleared">>

\* C10: the Begin observer triggers the wakeup transition on both activities
\* it is registered for.
C10_BeginTriggersWakeup ==
  [][(/\ runState = "notify"
      /\ activity \in {"Entry", "AfterWaiting"}
      /\ cb = "none"
      /\ pending # <<>>
      /\ Head(pending) = BeginObserver
      /\ <<runState, cb>> # <<runState', cb'>>)
     => (cb' = "wakeup" /\ runState' = "notify")]_vars

\* ----------------------------------------------------------------- C11, C12
\* accepted events whose send_event has gone on to signal and wake
Signalled ==
  {sentOk[i] : i \in {j \in 1..Len(sentOk) :
     ~(pc[sentOk[j].src] = "signal"
         /\ \A l \in (j + 1)..Len(sentOk) : sentOk[l].src # sentOk[j].src)}}

\* a wake-up call finds the events of all signalled sends in the channel, and
\* the wakeup pass has delivered them when its drain returns
C11_WakeStep ==
  /\ (runState = "sleeping" /\ wakePending /\ runState' = "notify") =>
       \A e \in Signalled : e \in SeqToSet(queue) \cup SeqToSet(delivered)
  /\ (cb = "wakeup" /\ cbpc = "drain" /\ cbpc' = "return") =>
       \A e \in Signalled : e \in SeqToSet(delivered')

\* a sleep under WaitUntil(t) ends only at the deadline or on the wake-up call
\* of a send_event
C11_SleepEnds ==
  (runState = "sleeping" /\ runState' # "sleeping" /\ control_flow.tag = "WaitUntil")
    => (deadlineReached \/ (wakePending /\ \E p \in Proxies : wakes[p] >= 1))

\* C11 as stated: a sleep under WaitUntil(t) ends only when t is reached or
\* the wake signal of a send_event arrives; on a signal before t dispatch
\* resumes at once, the event of the send is already queued and the pass the
\* wake triggers delivers it.
C11_WaitUntilSleep ==
  /\ [](runState = "sleeping" /\ wakePending => ENABLED HostWakeBySignal)
  /\ [][C11_SleepEnds /\ C11_WakeStep]_vars

\* C11, amended: a sleep under WaitUntil(t) may end before t without any
\* send_event (EventLoopProxy::new wakes the loop too, and so does the host);
\* when the wake signal of a send_event arrives the sleeping loop can wake at
\* once, whatever the deadline, the event of that send is already queued and
\* the wakeup pass has delivered it when its drain returns.
C11_SignalWakeDelivers ==
  /\ [](runState = "sleeping" /\ wakePending => ENABLED HostWakeBySignal)
  /\ [][C11_WakeStep]_vars

\* a wakeup pass under WaitUntil has delivered the event of a send_event that
\* woke the loop
C11_Witness ==
  /\ cb = "wakeup"
  /\ cbpc = "return"
  /\ trace = <<"wakeup">>
  /\ control_flow.tag = "WaitUntil"
  /\ delivered # <<>>
  /\ queue = <<>>
  /\ ~wakePending
  /\ \A p \in Proxies : pc[p] = "idle"
  /\ \E p \in Proxies : wakes[p] >= 1

C12_ProxyInv ==
  /\ \A p \in Proxies : proxy[p] = "live" <=> srcValid[p]
  /\ loopState \in {"built", "running"} => receiverAlive

C12_ProxyStep ==
  /\ \A p \in Proxies :
       /\ (proxy[p] = "live" /\ proxy'[p] = "dropped") =>
            /\ \A q \in Proxies \ {p} : srcValid'[q] = srcValid[q] /\ proxy'[q] = proxy[q]
            /\ receiverAlive' = receiverAlive
            /\ queue' = queue
       /\ (pc[p] = "signal" /\ pc'[p] = "idle") =>
            (srcValid[p] /\ wakePending' /\ result'[p] = Ok)
  /\ (nSends' = nSends + 1 /\ loopState \in {"built", "running"}) =>
       \E p \in Proxies :
         /\ proxy[p] = "live"
         /\ pc'[p] = "signal"
         /\ queue' = Append(queue, [src |-> p, n |-> nSends + 1, late |-> exitObserved])

\* C12: every live proxy, clones included, has a valid source of its own;
\* dropping a proxy invalidates that source only and leaves the other
\* proxies, the channel and its Receiver alone; while the EventLoop exists a
\* send_event through any remaining proxy enqueues its event and wakes the
\* loop, whatever was cloned or dropped in between.
C12_ProxiesIndependent ==
  []C12_ProxyInv /\ [][C12_ProxyStep]_vars

\* after the first proxy was dropped its clone has sent an event and woken
\* the loop
C12_Witness ==
  /\ proxy[1] = "dropped"
  /\ proxy[2] = "live"
  /\ oks[1] = 0
  /\ pc[2] = "idle"
  /\ result[2] = Ok
  /\ wakePending
  /\ queue # <<>>
  /\ queue[Len(queue)].src = 2

\* ---------------------------------------------------------------- C13..C16
\* C13: whenever the host flag of the family of a modifier key is clear, as
\* many Pressed as Released events have been queued for the key and the key
\* is not in phys_modifiers.
C13_NoStuckModifiers ==
  \A k \in ModifierKeys :
    NSFlagOf(k) \notin modifierFlags(held) =>
      (balance[k] = 0 /\ k \notin state.phys_modifiers)

HasModifiersChanged(q) == \E i \in 1..Len(q) : q[i].type = "ModifiersChanged"

\* C14: a callback queues ModifiersChanged if and only if it changes
\* state.modifiers.
C14_ModifiersChangedIffMaskChanges ==
  [][HasModifiersChanged(enqueued') <=> state'.modifiers # state.modifiers]_vars

\* C15: flags_changed queues exactly one ModifiersChanged, after all the key
\* events of the callback, and it carries state.modifiers as the eight
\* process_event! calls left it.
C15_OneModifiersChangedLast ==
  last.cb = "flags_changed" =>
    /\ enqueued # <<>>
    /\ enqueued[Len(enqueued)].type = "ModifiersChanged"
    /\ enqueued[Len(enqueued)].mods = state.modifiers
    /\ \A i \in 1..(Len(enqueued) - 1) : enqueued[i].type = "KeyboardInput"

\* one Shift key went up while the other is held: Released, then
\* ModifiersChanged with SHIFT still set
C15_Witness ==
  /\ last.cb = "flags_changed"
  /\ Len(enqueued) = 2
  /\ enqueued[1].type = "KeyboardInput"
  /\ enqueued[1].event.state = "Released"
  /\ enqueued[2] = ModifiersChanged({"SHIFT"})

\* C16: flags_changed queues Pressed only for a key that is not in
\* phys_modifiers and Released only for a key that is; a callback that queues
\* no key event leaves phys_modifiers and modifiers as they were.
C16_KeyEventsOnlyOnChange ==
  [][(last'.cb = "flags_changed" /\ flagChanges' = flagChanges + 1) =>
       /\ \A i \in 1..Len(enqueued') :
            enqueued'[i].type = "KeyboardInput" =>
              IF enqueued'[i].event.state = "Pressed"
              THEN enqueued'[i].event.physical_key \notin state.phys_modifiers
              ELSE enqueued'[i].event.physical_key \in state.phys_modifiers
       /\ (\A i \in 1..Len(enqueued') : enqueued'[i].type # "KeyboardInput") =>
            (state'.phys_modifiers = state.phys_modifiers
               /\ state'.modifiers = state.modifiers)]_vars

\* ---------------------------------------------------------------- C17..C20
\* the reserved ranges U+F700-F747, U+F802-F850, U+F85C, U+F85D, U+F85F-F86B
\* and U+F870-F8FF
C17_Reserved(c) ==
  \/ 63232 <= c /\ c <= 63303
  \/ 63490 <= c /\ c <= 63568
  \/ c = 63580
  \/ c = 63581
  \/ 63583 <= c /\ c <= 63595
  \/ 63600 <= c /\ c <= 63743

RECURSIVE C17_Kept(_)
C17_Kept(s) ==
  IF s = <<>> THEN <<>>
  ELSE IF C17_Reserved(Head(s)) THEN C17_Kept(Tail(s))
  ELSE <<Head(s)>> \o C17_Kept(Tail(s))

\* C17: each ReceivedImeText a callback queues is the string committed by the
\* matching insertText: without its reserved characters, the others kept in
\* order; so no reserved character is delivered.
C17_ImeTextFiltered ==
  LET committed == SelectSeq(last.calls, LAMBDA c : c.sel = "insertText")
      texts == SelectSeq(enqueued, LAMBDA e : e.type = "ReceivedImeText")
  IN /\ Len(texts) = Len(committed)
     /\ \A i \in 1..Len(texts) :
          /\ texts[i].text = C17_Kept(committed[i].chars)
          /\ \A j \in 1..Len(texts[i].text) : ~C17_Reserved(texts[i].text[j])

\* U+F850 and a letter were committed, the letter was delivered
C17_Witness ==
  /\ last.cb = "insertText"
  /\ last.calls[1].chars = <<63568, 97>>
  /\ enqueued = <<ReceivedImeText(<<97>>)>>

C18_ArrowKeys == {"ArrowUp", "ArrowDown", "ArrowLeft", "ArrowRight"}

\* C18: a key_down of an arrow key that finds in_ime_preedit set, and during
\* which the input context calls neither insertText nor unmarkText, leaves
\* in_ime_preedit set and does not send unmarkText.
C18_ArrowKeepsComposition ==
  [][(/\ last'.cb = "key_down"
      /\ from_scancode(last'.scancode) \in C18_ArrowKeys
      /\ state.in_ime_preedit
      /\ \A i \in 1..Len(last'.calls) :
           last'.calls[i].sel \notin {"insertText", "unmarkText"})
     => (state'.in_ime_preedit /\ "unmarkText" \notin SeqToSet(sent'))]_vars

\* ArrowRight went through the interpreter, which made no callback, and the
\* composition is still on
C18_Witness ==
  /\ last.cb = "key_down"
  /\ from_scancode(last.scancode) = "ArrowRight"
  /\ last.calls = <<>>
  /\ "interpretKeyEvents" \in SeqToSet(sent)
  /\ state.in_ime_preedit

\* C19: a key_down with the repeat flag set, for the key that is held, does
\* not send interpretKeyEvents.
C19_RepeatNotInterpreted ==
  (last.cb = "key_down" /\ last.is_repeat) =>
    "interpretKeyEvents" \notin SeqToSet(sent)

\* C20: key_down queues exactly one KeyboardInput, with state Pressed, and
\* key_up exactly one, with state Released, for the key of the event.
C20_OneKeyEventPerKeyCallback ==
  LET inputs == SelectSeq(enqueued, LAMBDA e : e.type = "KeyboardInput") IN
    last.cb \in {"key_down", "key_up"} =>
      /\ Len(inputs) = 1
      /\ inputs[1].event.state = IF last.cb = "key_down" THEN "Pressed" ELSE "Released"
      /\ inputs[1].event.physical_key = from_scancode(last.scancode)

\* a key_down that cancelled the composition queued its one key event, and a
\* key_up after a repeat that did not reach the interpreter
C20_Witness ==
  \/ /\ last.cb = "key_down"
     /\ "unmarkText" \in SeqToSet(sent)
     /\ Len(enqueued) = 1
  \/ /\ last.cb = "key_up"
     /\ Len(enqueued) = 1

\* ---------------------------------------------------------------- C21..C25
PointerCallbacks == {"mouse_moved", "mouse_down", "mouse_up", "scroll_wheel"}

\* the point of a pointer event lies outside the bounds of the view
OutsideView(ev) ==
  \/ ev.view_point.x < 0
  \/ ev.view_point.y < 0
  \/ ev.view_point.x > ev.view_rect.size.width
  \/ ev.view_point.y > ev.view_rect.size.height

EventsOfType(q, types) == SelectSeq(q, LAMBDA e : e.type \in types)

C21_Step ==
  (last'.cb \in PointerCallbacks /\ OutsideView(last'.ev) /\ buttons' = {}) =>
     /\ last'.motion.events = <<>>
     /\ last'.motion.state = state
     /\ last'.motion.markedText = markedText
     /\ EventsOfType(enqueued', {"CursorMoved"}) = <<>>
     /\ last'.cb = "mouse_moved" =>
          (enqueued' = <<>> /\ state' = state /\ markedText' = markedText)

\* C21: when a pointer callback reports a point outside the bounds of the
\* view and no pointer button is held, its motion step queues no event and
\* leaves the ViewState as it was, and the callback queues no CursorMoved.
C21_NoMotionOutsideView == [][C21_Step]_vars

\* the pointer moved to the left of the view with no button held while Shift
\* and Command, pressed unseen by the view, were down: nothing was queued and
\* the mask is still empty
C21_Witness ==
  /\ last.cb = "mouse_moved"
  /\ last.ev.view_point = [x |-> -1, y |-> 1]
  /\ last.flags = {"Shift", "Command"}
  /\ buttons = {}
  /\ enqueued = <<>>
  /\ state.modifiers = {}

C22_Step ==
  (last'.cb \in PointerCallbacks /\ OutsideView(last'.ev) /\ buttons' # {}) =>
     LET ev == last'.ev
         position == [x |-> ev.view_point.x * ev.scale_factor,
                      y |-> (ev.view_rect.size.height - ev.view_point.y) * ev.scale_factor]
         moved == [type |-> "CursorMoved", position |-> position,
                   modifiers |-> event_mods(ev.flags)]
     IN /\ EventsOfType(last'.motion.events, {"CursorMoved"}) = <<moved>>
        /\ EventsOfType(enqueued', {"CursorMoved"}) = <<moved>>

\* C22: when the point is outside the bounds of the view and a pointer button
\* is held, mouse_motion queues one CursorMoved whose position is
\* (x, view height - y) times the scale factor of the window, not clamped to
\* the view.
C22_DragReportsUnclippedPosition == [][C22_Step]_vars

\* a drag beyond the top right corner of the view on a window of scale
\* factor 2
C22_Witness ==
  /\ last.cb = "mouse_moved"
  /\ last.ev.view_point = [x |-> 3, y |-> 4]
  /\ last.ev.scale_factor = 2
  /\ buttons = {"Left"}
  /\ \E i \in 1..Len(enqueued) :
       /\ enqueued[i].type = "CursorMoved"
       /\ enqueued[i].position = [x |-> 6, y |-> -2]

\* the delta of the device-level wheel event of the latest callback
WheelDelta(q) == EventsOfType(q, {"DeviceEvent::MouseWheel"})[1].delta

C23_AsStated ==
  last'.cb = "scroll_wheel" =>
    LET ev == last'.ev
        delta == WheelDelta(enqueued')
    IN /\ delta.x = 0 - ev.scrollingDeltaX
       /\ delta.y = ev.scrollingDeltaY
       /\ delta.variant =
            (IF ev.hasPreciseScrollingDeltas THEN "PixelDelta" ELSE "LineDelta")

\* C23 as stated: the delta of every scroll callback with raw deltas (dx, dy)
\* has the components -dx and dy; it is a LineDelta when the host does not
\* mark the deltas as precise and a PixelDelta when it does.
C23_ScrollDelta == [][C23_AsStated]_vars

C23_Scaled ==
  last'.cb = "scroll_wheel" =>
    LET ev == last'.ev
        delta == WheelDelta(enqueued')
    IN IF ev.hasPreciseScrollingDeltas
       THEN /\ delta.variant = "PixelDelta"
            /\ delta.x = (0 - ev.scrollingDeltaX) * ev.scale_factor
            /\ delta.y = ev.scrollingDeltaY * ev.scale_factor
       ELSE /\ delta.variant = "LineDelta"
            /\ delta.x = 0 - ev.scrollingDeltaX
            /\ delta.y = ev.scrollingDeltaY

\* C23, amended: without precise deltas the delta is LineDelta(-dx, dy); with
\* precise deltas it is the PixelDelta of (-dx, dy) times the scale factor of
\* the window.
C23_ScrollDeltaScaled == [][C23_Scaled]_vars

\* a precise scroll of (3, -2) on a window of scale factor 2
C23_Witness ==
  /\ last.cb = "scroll_wheel"
  /\ last.ev.scrollingDeltaX = 3
  /\ last.ev.scrollingDeltaY = -2
  /\ last.ev.hasPreciseScrollingDeltas
  /\ last.ev.scale_factor = 2
  /\ WheelDelta(enqueued) = [variant |-> "PixelDelta", x |-> -6, y |-> -4]

C24_Step ==
  last'.cb = "scroll_wheel" =>
    LET host == last'.ev.phase
        phase == EventsOfType(enqueued', {"WindowEvent::MouseWheel"})[1].phase
    IN /\ phase \in {"Started", "Moved", "Ended"}
       /\ host \in {"MayBegin", "Began"} => phase = "Started"
       /\ host \in {"Ended", "Cancelled"} => phase = "Ended"
       /\ host \notin {"MayBegin", "Began", "Ended", "Cancelled"} => phase = "Moved"

\* C24: the phase of a scroll event is Started for the host phases MayBegin
\* and Began, Ended for the host phases that end a gesture (Ended and
\* Cancelled), and Moved for every other host phase.
C24_PhaseMapping == [][C24_Step]_vars

C25_Step ==
  last'.cb = "scroll_wheel" =>
    LET wheel == EventsOfType(enqueued',
                   {"DeviceEvent::MouseWheel", "WindowEvent::MouseWheel"})
    IN /\ Len(wheel) = 2
       /\ wheel[1].type = "DeviceEvent::MouseWheel"
       /\ wheel[2].type = "WindowEvent::MouseWheel"
       /\ wheel[1].delta = wheel[2].delta
       /\ wheel[2].phase = scroll_phase(last'.ev.phase)
       /\ wheel[2].modifiers = event_mods(last'.flags)

\* C25: every scroll callback queues one device-level and one window-level
\* MouseWheel event, the device event first, with the same delta; the window
\* event has the mapped phase and the modifier mask of the host event.
C25_TwoWheelEvents == [][C25_Step]_vars

\* a scroll inside the view with Shift and Command down: ModifiersChanged and
\* CursorMoved of the motion step, then the two wheel events
C25_Witness ==
  /\ last.cb = "scroll_wheel"
  /\ last.flags = {"Shift", "Command"}
  /\ Len(enqueued) = 4
  /\ enqueued[3].type = "DeviceEvent::MouseWheel"
  /\ enqueued[4].type = "WindowEvent::MouseWheel"
  /\ enqueued[4].modifiers = {"SHIFT", "SUPER"}
  /\ enqueued[3].delta = enqueued[4].delta

\* ----------------------------------------------------------------- C26, C27
\* the mask bit of the family of a modifier key
MaskBitOf(k) ==
  CASE k \in {"ShiftLeft", "ShiftRight"} -> "SHIFT"
    [] k \in {"ControlLeft", "ControlRight"} -> "CONTROL"
    [] k \in {"AltLeft", "AltRight"} -> "ALT"
    [] k \in {"SuperLeft", "SuperRight"} -> "SUPER"

\* the states of the key events a callback queued for the key k, in order
KeyStatesOf(q, k) ==
  LET evs == SelectSeq(q, LAMBDA e : e.type = "KeyboardInput" /\ e.event.physical_key = k)
  IN [i \in 1..Len(evs) |-> evs[i].event.state]

C26_Step ==
  \A k \in ModifierKeys :
    (last'.cb = "flags_changed" /\ last'.scancode = get_scancode(k)) =>
      LET set == NSFlagOf(k) \in last'.flags
          down == k \in state.phys_modifiers
          now == state'.phys_modifiers
      IN /\ (set /\ ~down) =>
              (KeyStatesOf(enqueued', k) = <<"Pressed">> /\ now = state.phys_modifiers \cup {k})
         /\ (set /\ down) =>
              /\ KeyStatesOf(enqueued', k) = <<"Released">>
              /\ now = state.phys_modifiers \ {k}
              /\ MaskBitOf(k) \in state'.modifiers
         /\ (~set /\ down) =>
              /\ KeyStatesOf(enqueued', k) = <<"Released">>
              /\ now = state.phys_modifiers \ {k}
              /\ MaskBitOf(k) \notin state'.modifiers
         /\ (~set /\ ~down) =>
              /\ EventsOfType(enqueued', {"KeyboardInput"}) = <<>>
              /\ now = state.phys_modifiers

\* C26: for the modifier key k that a flags_changed callback reports, on
\* (flag of the family, k recorded as down): (set, not down) queues Pressed
\* and records k; (set, down) queues Released and removes k, the mask bit
\* stays set; (clear, down) queues Released, removes k and clears the mask
\* bit; (clear, not down) queues no key event.
C26_TransitionTable == [][C26_Step]_vars

\* ShiftLeft went up while ShiftRight was held: the flag is still set, the
\* key was recorded as down, so Released was queued and the mask kept SHIFT
C26_Witness ==
  /\ last.cb = "flags_changed"
  /\ last.scancode = 56
  /\ "Shift" \in last.flags
  /\ KeyStatesOf(enqueued, "ShiftLeft") = <<"Released">>
  /\ "ShiftLeft" \notin state.phys_modifiers
  /\ "ShiftRight" \in state.phys_modifiers
  /\ "SHIFT" \in state.modifiers

C27_Step ==
  (last'.cb = "flags_changed" /\ last'.scancode = 0) =>
    /\ \A k \in state.phys_modifiers :
         NSFlagOf(k) \notin last'.flags =>
           /\ "Released" \in SeqToSet(KeyStatesOf(enqueued', k))
           /\ k \notin state'.phys_modifiers
    /\ KeyStatesOf(enqueued', "KeyA") = <<>>

\* C27: when a flags_changed callback has the key code of KeyA, every
\* modifier key recorded as down whose family flag is clear gets a Released
\* event and is removed from the down set, and no key event has KeyA as its
\* physical key.
C27_LayoutSwitchRemap == [][C27_Step]_vars

\* ---------------------------------------------------------------- C28..C30
\* the callbacks of sel among the callbacks the input context made
CallsOf(calls, sels) == SelectSeq(calls, LAMBDA c : c.sel \in sels)

C28_Step ==
  LET calls == last'.calls IN
    (last'.cb \in {"key_down", "setMarkedText"} /\ calls # <<>>
       /\ calls[Len(calls)].sel = "setMarkedText") =>
      /\ state'.in_ime_preedit
      /\ state'.key_triggered_ime
      /\ markedText' = calls[Len(calls)].chars

\* C28: when the input context calls set_marked_text, by itself or as the
\* last callback of a key_down, the view is composing afterwards
\* (in_ime_preedit), markedText holds the new text in place of the old one
\* and key_triggered_ime is set, whatever the state was before.
C28_SetMarkedTextComposes == [][C28_Step]_vars

\* a key_down committed a letter and started a new composition
C28_Witness ==
  /\ last.cb = "key_down"
  /\ Len(last.calls) = 2
  /\ last.calls[1].sel = "insertText"
  /\ last.calls[2].sel = "setMarkedText"
  /\ markedText = <<12354>>
  /\ state.in_ime_preedit
  /\ state.key_triggered_ime

C29_Step ==
  LET calls == last'.calls
      committed == CallsOf(calls, {"insertText"})
      imeCalls == CallsOf(calls, {"insertText", "setMarkedText"})
      texts == EventsOfType(enqueued', {"ReceivedImeText"})
  IN (last'.cb \in {"key_down", "insertText"} /\ committed # <<>>) =>
       /\ Len(texts) = Len(committed)
       /\ \A i \in 1..Len(texts) : texts[i].text = C17_Kept(committed[i].chars)
       /\ imeCalls[Len(imeCalls)].sel = "insertText" => ~state'.in_ime_preedit

\* C29: for each insert_text the input context calls one ReceivedImeText with
\* the filtered string is queued, and the view is not composing after the
\* callback unless set_marked_text followed the commit within the same key
\* press.
C29_InsertTextCommits == [][C29_Step]_vars

\* a key_down committed a function-key character and a letter: the letter
\* was delivered and the view is not composing
C29_Witness ==
  /\ last.cb = "key_down"
  /\ Len(last.calls) = 1
  /\ last.calls[1].sel = "insertText"
  /\ last.calls[1].chars = <<63234, 97>>
  /\ EventsOfType(enqueued, {"ReceivedImeText"}) = <<[type |-> "ReceivedImeText", text |-> <<97>>]>>
  /\ ~state.in_ime_preedit

C30_Step ==
  (/\ last'.cb = "key_down"
   /\ state.in_ime_preedit
   /\ "interpretKeyEvents" \in SeqToSet(sent')
   /\ CallsOf(last'.calls, {"insertText", "setMarkedText"}) = <<>>
   /\ from_scancode(last'.scancode) \notin C18_ArrowKeys) =>
     /\ \E i, j \in 1..Len(sent') :
          i < j /\ sent'[i] = "unmarkText" /\ sent'[j] = "discardMarkedText"
     /\ markedText' = <<>>
     /\ ~state'.in_ime_preedit
     /\ enqueued'[Len(enqueued')].type = "KeyboardInput"
     /\ enqueued'[Len(enqueued')].event.state = "Pressed"

\* C30: a key_down that finds the view composing, is passed to
\* interpretKeyEvents, brings neither set_marked_text nor insert_text and is
\* not of an arrow key cancels the composition: unmarkText is sent (markedText
\* emptied, discardMarkedText sent to the input context) and the view is not
\* composing when the callback, having queued its KeyboardInput, returns.
C30_KeyDownCancelsComposition == [][C30_Step]_vars

\* KeyB went down during a composition and the input context did nothing
C30_Witness ==
  /\ last.cb = "key_down"
  /\ last.scancode = 11
  /\ last.calls = <<>>
  /\ sent = <<"interpretKeyEvents", "unmarkText", "discardMarkedText">>
  /\ markedText = <<>>
  /\ ~state.in_ime_preedit

\* ---------------------------------------------------------------- C31..C37
\* C31: after every callback of the view the recorded modifier mask is the
\* mask of the ModifiersChanged queued last, and empty while none was queued.
C31_MaskIsLastNotified ==
  state.modifiers = (IF notified = <<>> THEN {} ELSE notified[1])

\* ControlLeft went down unseen by the view; the key_down of KeyB found the
\* mask stale and queued ModifiersChanged before its key event
C31_Witness ==
  /\ last.cb = "key_down"
  /\ held = {"ControlLeft"}
  /\ state.phys_modifiers = {}
  /\ Len(enqueued) = 2
  /\ enqueued[1] = ModifiersChanged({"CONTROL"})
  /\ state.modifiers = {"CONTROL"}
  /\ notified = <<{"CONTROL"}>>

\* C32: after every flags_changed the recorded mask has the bit of each of
\* the four families set exactly when the flag of the family is set in the
\* event of the callback, whatever the mask and phys_modifiers were before.
C32_MaskFollowsFlags ==
  last.cb = "flags_changed" => state.modifiers = event_mods(last.flags)

\* the key events a callback queued
KeyEventsOf(q) == EventsOfType(q, {"KeyboardInput"})

\* C33: over flags_changed callbacks of which none has the key code of KeyA,
\* each callback queues at most one key event, the events of a key alternate
\* Pressed, Released, ... from Pressed on (one more Pressed than Released, or
\* as many), and a key is in phys_modifiers exactly when its last event was
\* Pressed.
C33_KeyEventsAlternate ==
  /\ last.cb = "flags_changed" => Len(KeyEventsOf(enqueued)) <= 1
  /\ \A k \in ModifierKeys :
       /\ balance[k] \in {0, 1}
       /\ k \in state.phys_modifiers <=> balance[k] = 1

\* ShiftLeft is recorded as down; ShiftRight, held together with it, went up
\* and got its Released event, the second event of ShiftRight
C33_Witness ==
  /\ last.cb = "flags_changed"
  /\ last.flags = {"Shift"}
  /\ KeyStatesOf(enqueued, "ShiftRight") = <<"Released">>
  /\ Len(KeyEventsOf(enqueued)) = 1
  /\ balance["ShiftLeft"] = 1
  /\ balance["ShiftRight"] = 0
  /\ state.phys_modifiers = {"ShiftLeft"}

C34_Step ==
  LET calls == last'.calls IN
    /\ (~state.in_ime_preedit /\ state'.in_ime_preedit) =>
         \/ last'.cb = "setMarkedText"
         \/ /\ last'.cb = "key_down"
            /\ CallsOf(calls, {"setMarkedText"}) # <<>>
    /\ (state.in_ime_preedit /\ ~state'.in_ime_preedit) =>
         \/ last'.cb = "insertText"
         \/ /\ last'.cb = "key_down"
            /\ \/ CallsOf(calls, {"insertText"}) # <<>>
               \/ "unmarkText" \in SeqToSet(sent')

\* C34: in_ime_preedit changes in three places only: set_marked_text sets it,
\* insert_text and the cancellation of key_down clear it.  unmark_text called
\* by the host, key_up, flags_changed, cancel_operation and the pointer and
\* scroll callbacks leave it as it was.
C34_PreeditFrame == [][C34_Step]_vars

\* the host called unmark_text during a composition: the marked text is
\* gone and the view is still composing
C34_Witness ==
  /\ last.cb = "unmarkText"
  /\ sent = <<"discardMarkedText">>
  /\ markedText = <<>>
  /\ state.in_ime_preedit

\* C35: after every callback hasMarkedText is true exactly when the view is
\* composing (in_ime_preedit).
C35_MarkedTextIffPreedit ==
  has_marked_text(Enter) <=> state.in_ime_preedit

\* C36: the events of one key_down are queued in this order: ModifiersChanged
\* of update_potentially_stale_modifiers, if any, first; then the
\* ReceivedImeText of each insert_text of interpretKeyEvents; the
\* KeyboardInput (Pressed) of the key last.
C36_KeyDownOrder ==
  last.cb = "key_down" =>
    LET n == Len(enqueued) IN
      /\ n >= 1
      /\ enqueued[n].type = "KeyboardInput"
      /\ enqueued[n].event.state = "Pressed"
      /\ \A i \in 1..(n - 1) :
           \/ enqueued[i].type = "ReceivedImeText"
           \/ i = 1 /\ enqueued[i].type = "ModifiersChanged"

\* KeyB went down after Shift had gone down unseen, and committed the letter a
C36_Witness ==
  /\ last.cb = "key_down"
  /\ Len(enqueued) = 3
  /\ enqueued[1] = ModifiersChanged({"SHIFT"})
  /\ enqueued[2] = ReceivedImeText(<<97>>)
  /\ enqueued[3].type = "KeyboardInput"
  /\ enqueued[3].event.physical_key = "KeyB"

\* the places in q of the events of the types
PlacesOfType(q, types) == {i \in 1..Len(q) : q[i].type \in types}

\* C37: mouse_down and mouse_up queue exactly one MouseInput and scroll_wheel
\* its two MouseWheel events, also for a point outside the view with no
\* button held, where mouse_motion queues nothing; a CursorMoved of the
\* callback comes before its MouseInput or MouseWheel events.
C37_OwnEventNeverSuppressed ==
  LET own == IF last.cb = "scroll_wheel"
             THEN {"DeviceEvent::MouseWheel", "WindowEvent::MouseWheel"}
             ELSE {"MouseInput"}
  IN last.cb \in {"mouse_down", "mouse_up", "scroll_wheel"} =>
       /\ Cardinality(PlacesOfType(enqueued, own))
            = (IF last.cb = "scroll_wheel" THEN 2 ELSE 1)
       /\ \A i \in PlacesOfType(enqueued, {"CursorMoved"}) :
            \A j \in PlacesOfType(enqueued, own) : i < j

\* the last button held went up outside the view: no CursorMoved, and the
\* MouseInput of the release
C37_Witness ==
  /\ last.cb = "mouse_up"
  /\ OutsideView(last.ev)
  /\ buttons = {}
  /\ PlacesOfType(enqueued, {"CursorMoved"}) = {}
  /\ Len(enqueued) >= 1
  /\ enqueued[Len(enqueued)].type = "MouseInput"
  /\ enqueued[Len(enqueued)].state = "Released"

====
